---- MODULE Spec2Model ----
(***************************************************************************)
(* Language Mirror API (src/main.py): the /converse streaming pipeline.    *)
(*                                                                         *)
(* Text values (messages, transcripts, model replies) are sequences of     *)
(* tokens: a fixed phrase is one token, a transcript is one token per      *)
(* character, a language code is one token per subtag ("es-MX" is          *)
(* <<"es", "MX">>).  The empty string is the empty sequence.  Python's     *)
(* Optional[str] is a record [some, v]; None is [some |-> FALSE].          *)
(***************************************************************************)
EXTENDS Integers, Sequences, FiniteSets, TLC

\* ------------------------------------------------------------------------
\* Bounds of the model
\* ------------------------------------------------------------------------

\* Audio payload sizes run from MIN_AUDIO_BYTES - MaxShortfall up to the threshold
\* MIN_AUDIO_BYTES (and the empty payload).
MaxShortfall == 2

\* ------------------------------------------------------------------------
\* Optional values and text helpers
\* ------------------------------------------------------------------------

None == [some |-> FALSE, v |-> <<>>]

Some(x) == [some |-> TRUE, v |-> x]

\* Python truthiness of an Optional[str]: None and "" are falsy.
Truthy(o) == o.some /\ o.v # <<>>

\* One fixed phrase.
T(s) == <<s>>

\* str.lower() / str.upper(), token by token.
LowerTok(t) ==
    CASE t = "MX" -> "mx"
      [] t = "BR" -> "br"
      [] t = "CN" -> "cn"
      [] t = "EN" -> "en"
      [] t = "IT" -> "it"
      [] t = "Quota" -> "quota"
      [] t = "Resource" -> "resource"
      [] t = "All" -> "all"
      [] t = "API" -> "api"
      [] OTHER -> t

UpperTok(t) ==
    CASE t = "mx" -> "MX"
      [] t = "br" -> "BR"
      [] t = "cn" -> "CN"
      [] t = "pt" -> "PT"
      [] t = "es" -> "ES"
      [] t = "en" -> "EN"
      [] t = "it" -> "IT"
      [] t = "xx" -> "XX"
      [] OTHER -> t

Lower(s) == [i \in DOMAIN s |-> LowerTok(s[i])]

Upper(s) == [i \in DOMAIN s |-> UpperTok(s[i])]

\* `sub in s` for a one-token needle.
Contains(s, sub) == \E i \in DOMAIN s : s[i] = sub

\* str.strip(): leading and trailing blanks removed.
RECURSIVE LStrip(_)
LStrip(s) == IF s # <<>> /\ Head(s) = " " THEN LStrip(Tail(s)) ELSE s

RECURSIVE RStrip(_)
RStrip(s) ==
    IF s # <<>> /\ s[Len(s)] = " " THEN RStrip(SubSeq(s, 1, Len(s) - 1)) ELSE s

Strip(s) == RStrip(LStrip(s))

\* ------------------------------------------------------------------------
\* Persona registry
\* ------------------------------------------------------------------------

Dialect(key, voice, name, region, greeting) ==
    [key |-> key, voice_id |-> voice, name |-> name, region |-> region,
     greeting |-> T(greeting)]

\* The catalog; "dialects" keeps the declaration order of the dict.
SUPPORTED_LANGUAGES ==
    [italian |->
        [code |-> <<"it", "IT">>, name |-> "Italian", translate_code |-> <<"it">>,
         dialects |-> <<
            Dialect("tuscan", "pNInz6obpgDQGcFmaJgB", "Sofia", "Florence, Tuscany",
                    "Ciao! Sono Sofia."),
            Dialect("roman", "ErXwobaYiN019PkySvjV", "Marco", "Rome",
                    "Ao! Ciao! So' Marco."),
            Dialect("neapolitan", "VR6AewLTigWG4xSOukaG", "Giuseppe", "Naples",
                    "Ue! Benvenuto!") >>],
     spanish |->
        [code |-> <<"es", "ES">>, name |-> "Spanish", translate_code |-> <<"es">>,
         dialects |-> <<
            Dialect("castilian", "pNInz6obpgDQGcFmaJgB", "Carmen", "Madrid, Spain",
                    "Hola. Soy Carmen."),
            Dialect("mexican", "ErXwobaYiN019PkySvjV", "Carlos", "Mexico City",
                    "Que onda! Soy Carlos."),
            Dialect("argentine", "VR6AewLTigWG4xSOukaG", "Martin", "Buenos Aires",
                    "Che, que tal? Soy Martin.") >>],
     french |->
        [code |-> <<"fr", "FR">>, name |-> "French", translate_code |-> <<"fr">>,
         dialects |-> <<
            Dialect("parisian", "pNInz6obpgDQGcFmaJgB", "Amelie", "Paris",
                    "Bonjour. Je suis Amelie."),
            Dialect("quebec", "ErXwobaYiN019PkySvjV", "Jean-Pierre", "Montreal, Quebec",
                    "Salut! Moi c'est Jean-Pierre."),
            Dialect("southern", "VR6AewLTigWG4xSOukaG", "Pierre", "Marseille, Provence",
                    "Aie, bonjour! Moi c'est Pierre.") >>],
     german |->
        [code |-> <<"de", "DE">>, name |-> "German", translate_code |-> <<"de">>,
         dialects |-> <<
            Dialect("hochdeutsch", "pNInz6obpgDQGcFmaJgB", "Anna", "Berlin",
                    "Hallo. Ich bin Anna."),
            Dialect("bavarian", "ErXwobaYiN019PkySvjV", "Hans", "Munich, Bavaria",
                    "Servus! I bin da Hans."),
            Dialect("austrian", "VR6AewLTigWG4xSOukaG", "Wolfgang", "Vienna, Austria",
                    "Gruess Gott. Ich bin Wolfgang.") >>],
     japanese |->
        [code |-> <<"ja", "JP">>, name |-> "Japanese", translate_code |-> <<"ja">>,
         dialects |-> <<
            Dialect("tokyo", "pNInz6obpgDQGcFmaJgB", "Yuki", "Tokyo",
                    "Konnichiwa. Yuki desu."),
            Dialect("osaka", "ErXwobaYiN019PkySvjV", "Kenji", "Osaka",
                    "Ookini! Kenji ya de."),
            Dialect("kyoto", "VR6AewLTigWG4xSOukaG", "Haruka", "Kyoto",
                    "Okoshiyasu. Haruka dosu.") >>]]

\* SUPPORTED_LANGUAGES.get(language, SUPPORTED_LANGUAGES["italian"])
LangConfig(language) ==
    IF language \in DOMAIN SUPPORTED_LANGUAGES
    THEN SUPPORTED_LANGUAGES[language]
    ELSE SUPPORTED_LANGUAGES["italian"]

\* list(lang_config["dialects"].keys())
AvailableDialects(language) ==
    [i \in DOMAIN LangConfig(language).dialects |-> LangConfig(language).dialects[i].key]

\* ResolveDialect falling back to the last declared dialect.
ResolveDialect_LastDialect(language, d) ==
    IF d = "" \/ ~(\E i \in DOMAIN AvailableDialects(language) :
                      AvailableDialects(language)[i] = d)
    THEN AvailableDialects(language)[Len(AvailableDialects(language))]
    ELSE d

\* converse: `if not dialect or dialect not in available_dialects: dialect = available_dialects[0]`
ResolveDialect(language, d) ==
    IF d = "" \/ ~(\E i \in DOMAIN AvailableDialects(language) :
                      AvailableDialects(language)[i] = d)
    THEN AvailableDialects(language)[1]
    ELSE d

\* lang_config["dialects"].get(dialect, list(lang_config["dialects"].values())[0])
DialectInfo(language, d) ==
    LET ds == LangConfig(language).dialects
    IN  IF \E i \in DOMAIN ds : ds[i].key = d
        THEN ds[CHOOSE i \in DOMAIN ds : ds[i].key = d]
        ELSE ds[1]

\* ------------------------------------------------------------------------
\* Transcription adapter
\* ------------------------------------------------------------------------

\* What speech_client.recognize can do: results whose first alternative is a
\* transcript, no results, or one of the exceptions the adapter tells apart.
Transcripts ==
    { <<"c", "i", "a", "o">>, <<" ", "a", " ">>, <<"a">>, <<>> }

ExceptionMessages ==
    { <<"429", "Resource", "has", "been", "exhausted">>,
      <<"Quota", "exceeded", "for", "model">>,
      <<"404", "model", "not", "found">>,
      <<"API", "key", "not", "valid">> }

SpeechOutcomes ==
    [kind : {"results"}, text : Transcripts]
    \cup [kind : {"no_results"}, text : {<<>>}]
    \cup [kind : {"InvalidArgument", "ResourceExhausted"},
          text : {<<"429", "Resource", "has", "been", "exhausted">>}]
    \cup [kind : {"Exception"}, text : {<<"API", "key", "not", "valid">>, <<>>}]

\* transcribe_audio: (transcript, error)
transcribe_audio(o) ==
    CASE o.kind = "results" ->
            [transcript |-> o.text, error |-> None]
      [] o.kind = "no_results" ->
            [transcript |-> <<>>,
             error |-> Some(T("No speech detected. Please speak clearly and try again."))]
      [] o.kind = "InvalidArgument" ->
            [transcript |-> <<>>,
             error |-> Some(T("Audio format not supported. Please try again."))]
      [] o.kind = "ResourceExhausted" ->
            [transcript |-> <<>>,
             error |-> Some(T("Service temporarily busy. Please wait a moment."))]
      [] OTHER ->
            [transcript |-> <<>>,
             error |-> Some(T("Transcription failed:") \o o.text)]

\* ------------------------------------------------------------------------
\* Language-mismatch detector
\* ------------------------------------------------------------------------

\* language_names.get(detected_lang, detected_lang.upper() if detected_lang else "Unknown")
LanguageNames ==
    (<<"en">> :> "English") @@ (<<"it">> :> "Italian") @@ (<<"es">> :> "Spanish")
    @@ (<<"fr">> :> "French") @@ (<<"de">> :> "German") @@ (<<"ja">> :> "Japanese")
    @@ (<<"zh">> :> "Chinese") @@ (<<"zh", "cn">> :> "Chinese")
    @@ (<<"zh", "tw">> :> "Chinese") @@ (<<"ko">> :> "Korean")
    @@ (<<"pt">> :> "Portuguese") @@ (<<"ru">> :> "Russian") @@ (<<"ar">> :> "Arabic")
    @@ (<<"hi">> :> "Hindi") @@ (<<"nl">> :> "Dutch") @@ (<<"pl">> :> "Polish")
    @@ (<<"tr">> :> "Turkish") @@ (<<"vi">> :> "Vietnamese") @@ (<<"th">> :> "Thai")
    @@ (<<"sv">> :> "Swedish") @@ (<<"da">> :> "Danish") @@ (<<"no">> :> "Norwegian")
    @@ (<<"fi">> :> "Finnish") @@ (<<"el">> :> "Greek") @@ (<<"he">> :> "Hebrew")
    @@ (<<"id">> :> "Indonesian") @@ (<<"ms">> :> "Malay") @@ (<<"cs">> :> "Czech")
    @@ (<<"ro">> :> "Romanian") @@ (<<"hu">> :> "Hungarian")
    @@ (<<"uk">> :> "Ukrainian") @@ (<<"bg">> :> "Bulgarian")
    @@ (<<"hr">> :> "Croatian") @@ (<<"sk">> :> "Slovak") @@ (<<"sl">> :> "Slovenian")
    @@ (<<"lt">> :> "Lithuanian") @@ (<<"lv">> :> "Latvian")
    @@ (<<"et">> :> "Estonian") @@ (<<"und">> :> "Unknown") @@ (<<>> :> "Unknown")

DetectedName(detected_lang) ==
    IF detected_lang \in DOMAIN LanguageNames
    THEN T(LanguageNames[detected_lang])
    ELSE IF detected_lang # <<>> THEN Upper(detected_lang) ELSE T("Unknown")

\* The f-string of the mismatch message.
MismatchMessage(detected_name, target_name) ==
    T("Wrong language! You spoke in") \o detected_name
    \o T(", but we're practicing") \o T(target_name)
    \o T(". Try again in") \o T(target_name)
    \o T("- even if it's broken or just a few words!")

\* What translate_client.detect_language can return: a dict, a list of dicts, an
\* empty list, something else, or an exception.  "language" is the code as the
\* service spells it; a dict without the key has the empty code.
DetectedCodes ==
    { <<"it">>, <<"en">>, <<"es", "MX">>, <<"pt", "BR">>, <<"und">>, <<>> }

DetectOutcomes ==
    [kind : {"dict"}, language : DetectedCodes]
    \cup [kind : {"list"}, language : {<<"en">>, <<"it">>}]
    \cup [kind : {"empty_list", "other", "raise"}, language : {<<>>}]

\* `if not transcript or len(transcript.strip()) < 2`: the detector is not called.
DetectShortCircuit(transcript) ==
    transcript = <<>> \/ Len(Strip(transcript)) < 2

\* DetectResult comparing the whole codes, not their base subtags.
DetectResult_CompareFull(det, target_language) ==
    IF det.kind = "raise"
    THEN [is_mismatch |-> FALSE, message |-> <<>>, detected |-> <<"error">>]
    ELSE
    LET detected_lang == IF det.kind \in {"dict", "list"} THEN Lower(det.language) ELSE <<>>
        lang_config   == LangConfig(target_language)
        target_code   == Lower(lang_config.translate_code)
    IN  IF detected_lang = <<>> \/ detected_lang = <<"und">>
        THEN [is_mismatch |-> FALSE, message |-> <<>>, detected |-> <<"unknown">>]
        ELSE IF detected_lang # target_code
        THEN [is_mismatch |-> TRUE,
              message |-> MismatchMessage(DetectedName(detected_lang), lang_config.name),
              detected |-> detected_lang]
        ELSE [is_mismatch |-> FALSE, message |-> <<>>, detected |-> detected_lang]

\* DetectResult failing closed: a detector call that raises is reported as a
\* mismatch.
DetectResult_FailClosed(det, target_language) ==
    IF det.kind = "raise"
    THEN [is_mismatch |-> TRUE,
          message |-> MismatchMessage(<<"Unknown">>, LangConfig(target_language).name),
          detected |-> <<"error">>]
    ELSE
    LET detected_lang == IF det.kind \in {"dict", "list"} THEN Lower(det.language) ELSE <<>>
        lang_config   == LangConfig(target_language)
        target_code   == Lower(lang_config.translate_code)
    IN  IF detected_lang = <<>> \/ detected_lang = <<"und">>
        THEN [is_mismatch |-> FALSE, message |-> <<>>, detected |-> <<"unknown">>]
        ELSE IF Head(detected_lang) # Head(target_code)
        THEN [is_mismatch |-> TRUE,
              message |-> MismatchMessage(DetectedName(detected_lang), lang_config.name),
              detected |-> detected_lang]
        ELSE [is_mismatch |-> FALSE, message |-> <<>>, detected |-> detected_lang]

\* detect_language_mismatch past the short circuit, given what the detector did.
DetectResult(det, target_language) ==
    IF det.kind = "raise"
    THEN [is_mismatch |-> FALSE, message |-> <<>>, detected |-> <<"error">>]
    ELSE
    LET detected_lang == IF det.kind \in {"dict", "list"} THEN Lower(det.language) ELSE <<>>
        lang_config   == LangConfig(target_language)
        target_code   == Lower(lang_config.translate_code)
        detected_name == DetectedName(detected_lang)
        target_name   == lang_config.name
    IN  IF detected_lang = <<>> \/ detected_lang = <<"und">>
        THEN [is_mismatch |-> FALSE, message |-> <<>>, detected |-> <<"unknown">>]
        ELSE IF Head(detected_lang) # Head(target_code)
        THEN [is_mismatch |-> TRUE,
              message |-> MismatchMessage(detected_name, target_name),
              detected |-> detected_lang]
        ELSE [is_mismatch |-> FALSE, message |-> <<>>, detected |-> detected_lang]

\* detect_language_mismatch(transcript, target_language)
detect_language_mismatch(transcript, target_language, det) ==
    IF DetectShortCircuit(transcript)
    THEN [is_mismatch |-> FALSE, message |-> <<>>, detected |-> <<"unknown">>]
    ELSE DetectResult(det, target_language)

\* ------------------------------------------------------------------------
\* Tutor-feedback generator
\* ------------------------------------------------------------------------

\* gemini_result of a hard error.
NoResult == [none |-> TRUE]

Feedback(reaction, correction, response, cultural_note, encouragement) ==
    [none |-> FALSE, reaction |-> reaction, correction |-> correction,
     response |-> response, cultural_note |-> cultural_note,
     encouragement |-> encouragement]

\* The canned reply to a turn spoken in the wrong language.
WrongLanguageResult(language, d, wrong_lang_message) ==
    Feedback(T("Whoa, stop right there!"),
             wrong_lang_message,
             DialectInfo(language, d).greeting,
             <<>>,
             T("Come on, give") \o T(LangConfig(language).name)
                \o T("a try! Even one word counts."))

\* The canned reply when the model's body is not JSON.
ParseFallbackResult(language, d) ==
    Feedback(T("I heard you!"), T("Let me help you with that."),
             DialectInfo(language, d).greeting, <<>>, T("Keep trying!"))

\* The canned reply when the quota is exhausted.
QuotaFallbackResult(language, d) ==
    Feedback(T("I heard you!"), T("Let's work on that together."),
             DialectInfo(language, d).greeting, <<>>, T("Keep practicing!"))

models_to_try ==
    << "gemini-2.0-flash-lite", "gemini-2.0-flash-lite-001", "gemini-flash-lite-latest",
       "gemini-2.0-flash", "gemini-2.0-flash-001", "gemini-flash-latest",
       "gemini-2.0-flash-exp" >>

\* The decoded `history` query parameter: a JSON value.  A list holds items that
\* are objects ("dict") or not ("int").
HistoryValues ==
    { [type |-> "list", items |-> <<>>],
      [type |-> "list", items |-> <<"int", "dict", "dict">>],
      [type |-> "list", items |-> <<"dict", "int">>],
      [type |-> "int",  items |-> <<>>] }

HistoryInputs ==
    [parses : {TRUE}, value : HistoryValues]
    \cup [parses : {FALSE}, value : {[type |-> "list", items |-> <<>>]}]

\* converse: json.loads(history), [] when it does not parse.
ParseHistory(h) == IF h.parses THEN h.value ELSE [type |-> "list", items |-> <<>>]

\* history[-2:]
LastTwo(items) ==
    IF Len(items) <= 2 THEN items ELSE SubSeq(items, Len(items) - 1, Len(items))

\* Building history_text: None when it succeeds, else the message of the
\* exception (subscripting a non-list, or h.get on an item that is no dict).
BuildHistoryText(history) ==
    IF history.type = "list"
    THEN IF history.items = <<>> THEN None
         ELSE IF \E i \in DOMAIN LastTwo(history.items) : LastTwo(history.items)[i] # "dict"
              THEN Some(<<"'int'", "object", "has", "no", "attribute", "'get'">>)
              ELSE None
    ELSE Some(<<"'int'", "object", "is", "not", "subscriptable">>)

\* The log branch an attempt's failure takes; every branch ends in `continue`.
AttemptFailureClass(error_str) ==
    IF Contains(error_str, "429") \/ Contains(Lower(error_str), "quota")
       \/ Contains(Lower(error_str), "resource")
    THEN "quota"
    ELSE IF Contains(error_str, "404") THEN "not_found" ELSE "other"

\* raise Exception("All models exhausted or unavailable")
AllModelsMessage == <<"All", "models", "exhausted", "or", "unavailable">>

\* IsQuotaMessage without the "exhausted" test.
IsQuotaMessage_NoExhausted(error_msg) ==
    \/ Contains(error_msg, "429")
    \/ Contains(Lower(error_msg), "quota")
    \/ Contains(Lower(error_msg), "resource")

\* The test of the outer handler that selects the fallback.
IsQuotaMessage(error_msg) ==
    \/ Contains(error_msg, "429")
    \/ Contains(Lower(error_msg), "quota")
    \/ Contains(Lower(error_msg), "resource")
    \/ Contains(Lower(error_msg), "exhausted")

\* `except Exception as e` of analyze_with_gemini: (gemini_result, error)
OuterHandler(error_msg, language, d) ==
    IF IsQuotaMessage(error_msg)
    THEN [result |-> QuotaFallbackResult(language, d), error |-> None]
    ELSE [result |-> NoResult, error |-> Some(T("AI analysis failed:") \o error_msg)]

\* --- the reply body ---

\* The opening of a json-tagged fenced block, and a bare fence (three backticks).
FenceJson == "[fence-json]"

Fence == "[fence]"

\* Index of the first occurrence of tok in s, 0 when there is none.
IndexOf(s, tok) ==
    IF Contains(s, tok)
    THEN CHOOSE i \in DOMAIN s : s[i] = tok /\ \A j \in 1..(i - 1) : s[j] # tok
    ELSE 0

\* s.split(sep)[0]
SplitFirst(s, sep) ==
    IF IndexOf(s, sep) = 0 THEN s ELSE SubSeq(s, 1, IndexOf(s, sep) - 1)

\* s.split(sep)[1], for s that holds sep
SplitSecond(s, sep) ==
    SplitFirst(SubSeq(s, IndexOf(s, sep) + 1, Len(s)), sep)

\* The fence extraction before json.loads.
ExtractFence(text) ==
    IF Contains(text, FenceJson)
    THEN SplitFirst(SplitSecond(text, FenceJson), Fence)
    ELSE IF Contains(text, Fence)
         THEN SplitFirst(SplitSecond(text, Fence), Fence)
         ELSE text

\* JSON documents, one token each, and the values they decode to.
JsonDocs ==
    ("{full}" :> [type |-> "dict",
                  fields |-> ("reaction" :> T("Hmm...")) @@ ("correction" :> T("Good!"))
                             @@ ("response" :> T("Allora, dimmi di piu."))
                             @@ ("cultural_note" :> <<>>)
                             @@ ("encouragement" :> T("You're getting it!"))])
    @@ ("{partial}" :> [type |-> "dict",
                        fields |-> ("correction" :> T("Not quite right."))])
    @@ ("[1]" :> [type |-> "list", fields |-> <<>>])

\* json.loads(text.strip()): None on JSONDecodeError.
JsonLoads(text) ==
    IF Len(Strip(text)) = 1 /\ Strip(text)[1] \in DOMAIN JsonDocs
    THEN Some(JsonDocs[Strip(text)[1]])
    ELSE None

\* result.get(key, "")
Get(fields, key) == IF key \in DOMAIN fields THEN fields[key] ELSE <<>>

\* ParseResponse with a body that is not JSON handled by the outer handler.
ParseResponse_ParseErrorFatal(text, language, d) ==
    LET result == JsonLoads(ExtractFence(Strip(text)))
    IN  IF ~result.some
        THEN OuterHandler(<<"Expecting", "value">>, language, d)
        ELSE IF result.v.type # "dict"
        THEN OuterHandler(<<"'list'", "object", "has", "no", "attribute", "'get'">>,
                          language, d)
        ELSE [result |-> Feedback(Get(result.v.fields, "reaction"),
                                  Get(result.v.fields, "correction"),
                                  Get(result.v.fields, "response"),
                                  Get(result.v.fields, "cultural_note"),
                                  Get(result.v.fields, "encouragement")),
              error |-> None]

\* What follows a successful attempt: parse the body and build the result.
ParseResponse(text, language, d) ==
    LET result == JsonLoads(ExtractFence(Strip(text)))
    IN  IF ~result.some
        THEN [result |-> ParseFallbackResult(language, d), error |-> None]
        ELSE IF result.v.type # "dict"
        THEN OuterHandler(<<"'list'", "object", "has", "no", "attribute", "'get'">>,
                          language, d)
        ELSE [result |-> Feedback(Get(result.v.fields, "reaction"),
                                  Get(result.v.fields, "correction"),
                                  Get(result.v.fields, "response"),
                                  Get(result.v.fields, "cultural_note"),
                                  Get(result.v.fields, "encouragement")),
              error |-> None]

\* What one generate_content call can do: raise, answer with a body, or answer
\* with a response whose .text raises (no valid part).
ReplyBodies ==
    { <<"{full}">>,
      <<"Sure!", FenceJson, "{full}", Fence>>,
      <<Fence, "{partial}", Fence, "bye">>,
      <<Fence, "JSON", "{full}", Fence>>,
      <<"[1]">>,
      <<"I", "cannot", "answer">> }

GenerateOutcomes ==
    [kind : {"raise"}, text : ExceptionMessages]
    \cup [kind : {"response"}, text : ReplyBodies]
    \cup [kind : {"blocked"},
          text : {<<"response.text", "requires", "a", "valid", "Part">>,
                  <<"finish_reason", "is", "Resource", "limit">>}]

\* ------------------------------------------------------------------------
\* Translator adapter
\* ------------------------------------------------------------------------

\* html.unescape, token by token.
UnescapeTok(t) ==
    CASE t = "I&#39;m" -> "I'm"
      [] t = "&amp;" -> "&"
      [] OTHER -> t

HtmlUnescape(s) == [i \in DOMAIN s |-> UnescapeTok(s[i])]

TranslateOutcomes ==
    [kind : {"ok"}, text : {<<"I&#39;m", "listening.">>, <<>>}]
    \cup [kind : {"raise"}, text : {<<"API", "key", "not", "valid">>}]

\* translate_text: (translated, error)
translate_text(o) ==
    IF o.kind = "ok"
    THEN [text |-> HtmlUnescape(o.text), error |-> None]
    ELSE [text |-> <<>>, error |-> Some(T("Translation failed:") \o o.text)]

\* The orchestrator's substitute for a failed translation.
TranslationPlaceholder == T("(Translation unavailable)")

\* ------------------------------------------------------------------------
\* Speech synthesizer adapter
\* ------------------------------------------------------------------------

\* base64.b64encode: bytes to sextets (0..63), Pad for "=".
Pad == 64

RECURSIVE Base64(_)
Base64(b) ==
    IF Len(b) = 0 THEN <<>>
    ELSE IF Len(b) = 1
    THEN << b[1] \div 4, (b[1] % 4) * 16, Pad, Pad >>
    ELSE IF Len(b) = 2
    THEN << b[1] \div 4, (b[1] % 4) * 16 + b[2] \div 16, (b[2] % 16) * 4, Pad >>
    ELSE << b[1] \div 4, (b[1] % 4) * 16 + b[2] \div 16,
            (b[2] % 16) * 4 + b[3] \div 64, b[3] % 64 >>
         \o Base64(SubSeq(b, 4, Len(b)))

SynthOutcomes ==
    [kind : {"status"}, status : {200}, content : {<<77, 97, 110, 33>>, <<>>}]
    \cup [kind : {"status"}, status : {401, 429, 500}, content : {<<>>}]
    \cup [kind : {"timeout", "raise"}, status : {0}, content : {<<>>}]

\* The voice of the URL when synthesize_speech looks the dialect up in the
\* default language whatever the language of the request.
SynthVoice_DefaultLanguage(language, d) == DialectInfo("italian", d).voice_id

\* synthesize_speech: the voice of the URL, looked up again from the language
\* and dialect keys it is given.
SynthVoice(language, d) == DialectInfo(language, d).voice_id

\* synthesize_speech: (audio_base64, error)
synthesize_speech(o) ==
    CASE o.kind = "timeout" ->
            [audio |-> <<>>,
             error |-> Some(T("Voice generation timed out. Please try again."))]
      [] o.kind = "raise" ->
            [audio |-> <<>>,
             error |-> Some(T("Voice generation failed:") \o T("connection refused"))]
      [] o.kind = "status" /\ o.status = 401 ->
            [audio |-> <<>>, error |-> Some(T("ElevenLabs API key invalid"))]
      [] o.kind = "status" /\ o.status = 429 ->
            [audio |-> <<>>,
             error |-> Some(T("Voice generation quota exceeded. Please try again later."))]
      [] o.kind = "status" /\ o.status >= 400 ->
            [audio |-> <<>>,
             error |-> Some(T("Voice generation failed:") \o T("server error"))]
      [] OTHER ->
            [audio |-> Base64(o.content), error |-> None]

\* ------------------------------------------------------------------------
\* The /converse request and its event generator
\* ------------------------------------------------------------------------

\* `len(audio_content) < 1000`
MIN_AUDIO_BYTES == 1000

\* Sizes of the uploaded audio: empty, up to MaxShortfall bytes below the
\* threshold, and the threshold itself.
AudioLens == {0} \cup ((MIN_AUDIO_BYTES - MaxShortfall)..MIN_AUDIO_BYTES)

\* The `language` and `dialect` query parameters (the enum of the declaration is
\* documentation only: any string arrives).
LanguageInputs == {"italian", "spanish", "klingon"}

DialectInputs == {"", "roman", "mexican"}

\* The external services, and the adapters whose return values are recorded.
Stages == {"transcribe", "detect", "generate", "translate", "synthesize"}

\* The functions whose return value is recorded; "detect_language" is the
\* detection service's own answer, as detect_language_mismatch received it, and
\* "generate_events" the exception that reached the generator's own handler;
\* "synthesize_voice" is the voice the POST of synthesize_speech was addressed
\* to.
Adapters ==
    {"transcribe", "detect_language", "detect", "analyze", "translate", "synthesize",
     "synthesize_voice", "generate_events"}

\* ------------------------------------------------------------------------
\* Rate limiter and routes
\* ------------------------------------------------------------------------

RATE_LIMIT_REQUESTS == 20

RATE_LIMIT_WINDOW == 60

\* time.time() is read in ticks of half a second, so that a reading can fall
\* between two whole seconds.
TicksPerSecond == 2

WindowTicks == RATE_LIMIT_WINDOW * TicksPerSecond

\* The clock readings at which requests arrive: two inside the first second,
\* and the two at which the timestamps of those leave the window.
Instants == {0, 1, WindowTicks, WindowTicks + 1}

\* request.client.host, or "unknown" when request.client is None.
Clients == {"10.0.0.1", "unknown"}

\* min() of a non-empty list of timestamps.
Oldest(reqs) == CHOOSE r \in {reqs[i] : i \in DOMAIN reqs} :
                    \A i \in DOMAIN reqs : r <= reqs[i]

\* Prune with a window one tick short of the 60 seconds.
Prune_ShortWindow(reqs, t) ==
    SelectSeq(reqs, LAMBDA req_time : t - req_time < WindowTicks - 1)

\* The timestamps that are still inside the window at time t.
Prune(reqs, t) == SelectSeq(reqs, LAMBDA req_time : t - req_time < WindowTicks)

\* RetryAfter from the time elapsed since the oldest timestamp instead of the
\* time the oldest timestamp still has to stay.
RetryAfter_Elapsed(reqs, t) ==
    ((t - Oldest(reqs)) \div TicksPerSecond) + 1

\* RetryAfter without the `+ 1`.
RetryAfter_NoPlusOne(reqs, t) ==
    (WindowTicks - (t - Oldest(reqs))) \div TicksPerSecond

\* int(self.window - (now - oldest)) + 1, in whole seconds; the difference is
\* positive, so int() is the floor.
RetryAfter(reqs, t) ==
    ((WindowTicks - (t - Oldest(reqs))) \div TicksPerSecond) + 1

\* is_allowed that records the time of a denied request too.
is_allowed_RecordDenied(reqs, t) ==
    LET kept == Prune(reqs, t)
    IN  IF Len(kept) >= RATE_LIMIT_REQUESTS
        THEN [allowed |-> FALSE, retry_after |-> Some(RetryAfter(kept, t)),
              requests |-> Append(kept, t)]
        ELSE [allowed |-> TRUE, retry_after |-> None, requests |-> Append(kept, t)]

\* is_allowed with `>` for `>=`.
is_allowed_OffByOne(reqs, t) ==
    LET kept == Prune(reqs, t)
    IN  IF Len(kept) > RATE_LIMIT_REQUESTS
        THEN [allowed |-> FALSE, retry_after |-> Some(RetryAfter(kept, t)), requests |-> kept]
        ELSE [allowed |-> TRUE, retry_after |-> None, requests |-> Append(kept, t)]

\* RateLimiter.is_allowed on a client's list at time t: the answer and the
\* list it leaves behind.
is_allowed(reqs, t) ==
    LET kept == Prune(reqs, t)
    IN  IF Len(kept) >= RATE_LIMIT_REQUESTS
        THEN [allowed |-> FALSE, retry_after |-> Some(RetryAfter(kept, t)), requests |-> kept]
        ELSE [allowed |-> TRUE, retry_after |-> None, requests |-> Append(kept, t)]

\* request.url.path, one token per segment.
ConversePath == <<"converse">>

DialectsPath(key) == <<"dialects", key>>

\* The keys asked of /dialects/{language}: the catalog's and two others.
LanguageKeys == (DOMAIN SUPPORTED_LANGUAGES) \cup {"klingon", "Italian"}

\* The paths of the requests that do not start a pipeline.
Paths ==
    {<<"health">>, <<"languages">>, <<"greeting">>, <<"dialects">>}
    \cup {DialectsPath(k) : k \in LanguageKeys}

\* `request.url.path in ["/health", "/dialects", "/languages"]`
SkipPaths(path) == path \in {<<"health">>, <<"dialects">>, <<"languages">>}

\* get_languages: the keys of the returned object.
get_languages == [status |-> 200, keys |-> DOMAIN SUPPORTED_LANGUAGES]

\* get_dialects(language): 404 when SUPPORTED_LANGUAGES.get(language) is None.
get_dialects(key) ==
    IF key \in DOMAIN SUPPORTED_LANGUAGES
    THEN [status |-> 200,
          keys |-> {SUPPORTED_LANGUAGES[key].dialects[i].key :
                       i \in DOMAIN SUPPORTED_LANGUAGES[key].dialects}]
    ELSE [status |-> 404, keys |-> {}]

\* The status the router answers with once call_next is reached; a path with
\* no route is answered 404.
RouteStatus(path) ==
    IF path \in {<<"health">>, <<"greeting">>, ConversePath} THEN 200
    ELSE IF path = <<"languages">> THEN get_languages.status
    ELSE IF Len(path) = 2 /\ Head(path) = "dialects" THEN get_dialects(path[2]).status
    ELSE 404

\* How many rate-limited requests of one client are followed from the one that
\* found its list empty.
MaxRequests == 22

VARIABLES
    pc,                     \* where the handler / generator stands
    language,               \* the request's language key
    dialect,                \* the dialect key after resolution
    audio_len,              \* len(audio_content)
    conversation_history,   \* the decoded history
    events,                 \* the events yielded so far, in order
    transcript,             \* locals of generate_events
    error,
    gemini_result,
    native_response,
    translation,
    audio_base64,
    model_idx,              \* position of the loop over models_to_try (0: not in it)
    calls,                  \* how often each external service was called
    attempted,              \* the models tried by this feedback generation
    failures,               \* classes of the failed attempts of this generation
    ret,                    \* what each adapter returned, once it has
    requests,               \* rate_limiter.requests: each client's timestamps
    now,                    \* the reading of time.time(), in ticks
    response,               \* what the middleware answered to the latest request
    stats,                  \* per client, its requests since its list was empty
    form,                   \* the language and dialect parameters as they were sent
    other,                  \* where a second, concurrent /converse request stands
    checks                  \* the admission checks that are under way, by request

vars ==
    << pc, language, dialect, audio_len, conversation_history, events, transcript,
       error, gemini_result, native_response, translation, audio_base64, model_idx,
       calls, attempted, failures, ret, requests, now, response, stats,
       form, other, checks >>

\* The variables of the one /converse request that is followed.
pipeline ==
    << pc, language, dialect, audio_len, conversation_history, events, transcript,
       error, gemini_result, native_response, translation, audio_base64, model_idx,
       calls, attempted, failures, ret >>

limiter == << requests, now, response, stats >>

\* What a step of the pipeline leaves alone.
\* The requests that run beside the one that is followed.
concurrent == << other, checks >>

outside == << limiter, form, concurrent >>

locals == << transcript, error, gemini_result, native_response, translation, audio_base64 >>

request == << language, dialect, audio_len, conversation_history >>

lang_config == LangConfig(language)

\* lang_config["dialects"][dialect] of converse
dialect_config == DialectInfo(language, dialect)

Progress(step, message, percent) ==
    [event |-> "progress", step |-> step, message |-> message, progress |-> percent]

ErrorEvent(message) == [event |-> "error", message |-> message]

TranscriptEvent(t) == [event |-> "transcript", transcript |-> t]

AnalysisEvent(g) ==
    [event |-> "analysis", reaction |-> g.reaction, correction |-> g.correction,
     encouragement |-> g.encouragement, cultural_note |-> g.cultural_note]

TranslationEvent(native, english) ==
    [event |-> "translation", native |-> native, english |-> english]

CompleteEvent ==
    [event |-> "complete",
     transcript |-> transcript,
     reaction |-> gemini_result.reaction,
     correction |-> gemini_result.correction,
     encouragement |-> gemini_result.encouragement,
     cultural_note |-> gemini_result.cultural_note,
     response_native |-> native_response,
     response_english |-> translation,
     audio_base64 |-> audio_base64,
     tutor_name |-> dialect_config.name,
     tutor_region |-> dialect_config.region,
     language |-> language,
     dialect |-> dialect]

Yield(e) == events' = Append(events, e)

\* The requests of one client that are in flight together.
Slots == {1, 2}

\* No admission check is under way for a request.
NoCheck == [pc |-> "idle", now |-> 0, kept |-> <<>>]

\* No request was answered yet.
NoResponse ==
    [client |-> "", path |-> <<>>, time |-> 0, limited |-> FALSE, allowed |-> TRUE,
     retry_after |-> None, status |-> 0]

Init ==
    /\ pc = "idle"
    /\ language = ""
    /\ dialect = ""
    /\ audio_len = 0
    /\ conversation_history = [type |-> "list", items |-> <<>>]
    /\ events = <<>>
    /\ transcript = <<>>
    /\ error = None
    /\ gemini_result = NoResult
    /\ native_response = <<>>
    /\ translation = <<>>
    /\ audio_base64 = <<>>
    /\ model_idx = 0
    /\ calls = [s \in Stages |-> 0]
    /\ attempted = <<>>
    /\ failures = {}
    /\ ret = [a \in Adapters |-> None]
    /\ requests = [c \in Clients |-> <<>>]
    /\ now = 0
    /\ response = NoResponse
    /\ stats = [c \in Clients |->
                  [limited |-> 0, admitted |-> 0, first |-> 0, last |-> 0, log |-> <<>>]]
    /\ form = [language |-> "", dialect |-> ""]
    /\ other = [pc |-> "idle", attempts |-> 0]
    /\ checks = [r \in Slots |-> NoCheck]

\* converse, up to the creation of the generator.
Converse(lang, d, n, h) ==
    /\ pc = "idle"
    /\ language' = lang
    /\ dialect' = ResolveDialect(lang, d)
    /\ audio_len' = n
    /\ conversation_history' = ParseHistory(h)
    /\ pc' = "start"
    /\ UNCHANGED << events, locals, model_idx, calls, attempted, failures, ret >>

\* Step 1: the first yield.
YieldReceiving ==
    /\ pc = "start"
    /\ Yield(Progress("receiving", T(dialect_config.name) \o T("is listening..."), 10))
    /\ pc' = "receiving"
    /\ UNCHANGED << outside, request, locals, model_idx, calls, attempted, failures, ret >>

\* CheckAudio with the `return` after the error event missing.
CheckAudio_NoReturn ==
    /\ pc = "receiving"
    /\ IF audio_len < MIN_AUDIO_BYTES
       THEN events' = events
                \o << ErrorEvent(T("Audio too short. Please speak for at least 1 second.")),
                      Progress("transcribing",
                               T("Understanding your") \o T(lang_config.name), 25) >>
       ELSE Yield(Progress("transcribing",
                           T("Understanding your") \o T(lang_config.name), 25))
    /\ pc' = "transcribing"
    /\ UNCHANGED << outside, request, locals, model_idx, calls, attempted, failures, ret >>

\* CheckAudio that rejects only an empty payload.
CheckAudio_EmptyOnly ==
    /\ pc = "receiving"
    /\ IF audio_len = 0
       THEN /\ Yield(ErrorEvent(T("Audio too short. Please speak for at least 1 second.")))
            /\ pc' = "done"
       ELSE /\ Yield(Progress("transcribing",
                              T("Understanding your") \o T(lang_config.name), 25))
            /\ pc' = "transcribing"
    /\ UNCHANGED << outside, request, locals, model_idx, calls, attempted, failures, ret >>

\* The size check, then the error or the progress event of step 2.
CheckAudio ==
    /\ pc = "receiving"
    /\ IF audio_len < MIN_AUDIO_BYTES
       THEN /\ Yield(ErrorEvent(T("Audio too short. Please speak for at least 1 second.")))
            /\ pc' = "done"
       ELSE /\ Yield(Progress("transcribing",
                              T("Understanding your") \o T(lang_config.name), 25))
            /\ pc' = "transcribing"
    /\ UNCHANGED << outside, request, locals, model_idx, calls, attempted, failures, ret >>

\* await transcribe_audio(...): the call to the speech service.
TranscribeCall ==
    /\ pc = "transcribing"
    /\ calls' = [calls EXCEPT !["transcribe"] = @ + 1]
    /\ pc' = "await_transcribe"
    /\ UNCHANGED << outside, request, events, locals, model_idx, attempted, failures, ret >>

\* TranscribeReturn without the `if not transcript` check.
TranscribeReturn_NoEmptyCheck(o) ==
    /\ pc = "await_transcribe"
    /\ LET r == transcribe_audio(o)
       IN  /\ transcript' = r.transcript
           /\ error' = r.error
           /\ ret' = [ret EXCEPT !["transcribe"] = Some(r)]
           /\ IF Truthy(r.error)
              THEN /\ Yield(ErrorEvent(r.error.v))
                   /\ pc' = "done"
              ELSE /\ Yield(TranscriptEvent(r.transcript))
                   /\ pc' = "transcript_sent"
    /\ UNCHANGED << outside, request, gemini_result, native_response, translation, audio_base64,
                    model_idx, calls, attempted, failures >>

\* TranscribeReturn with the `return` after the error events missing.
TranscribeReturn_NoReturn(o) ==
    /\ pc = "await_transcribe"
    /\ LET r == transcribe_audio(o)
       IN  /\ transcript' = r.transcript
           /\ error' = r.error
           /\ ret' = [ret EXCEPT !["transcribe"] = Some(r)]
           /\ IF Truthy(r.error)
              THEN events' = events \o << ErrorEvent(r.error.v), TranscriptEvent(r.transcript) >>
              ELSE Yield(TranscriptEvent(r.transcript))
           /\ pc' = "transcript_sent"
    /\ UNCHANGED << outside, request, gemini_result, native_response, translation, audio_base64,
                    model_idx, calls, attempted, failures >>

\* transcribe_audio returns; the generator runs to its next yield.
TranscribeReturn(o) ==
    /\ pc = "await_transcribe"
    /\ LET r == transcribe_audio(o)
       IN  /\ transcript' = r.transcript
           /\ error' = r.error
           /\ ret' = [ret EXCEPT !["transcribe"] = Some(r)]
           /\ IF Truthy(r.error)
              THEN /\ Yield(ErrorEvent(r.error.v))
                   /\ pc' = "done"
              ELSE IF r.transcript = <<>>
              THEN /\ Yield(ErrorEvent(T("Couldn't hear you clearly. Please try again!")))
                   /\ pc' = "done"
              ELSE /\ Yield(TranscriptEvent(r.transcript))
                   /\ pc' = "transcript_sent"
    /\ UNCHANGED << outside, request, gemini_result, native_response, translation, audio_base64,
                    model_idx, calls, attempted, failures >>

\* Step 3: the progress event of the analysis.
YieldAnalyzing ==
    /\ pc = "transcript_sent"
    /\ Yield(Progress("analyzing", T(dialect_config.name) \o T("is thinking..."), 45))
    /\ pc' = "analyzing"
    /\ UNCHANGED << outside, request, locals, model_idx, calls, attempted, failures, ret >>

\* analyze_with_gemini returns (gemini_result, error) to generate_events; its
\* locals are gone.  `path` names the return statement taken, `newret` carries
\* what the detector returned, `body` the text of the model's answer (empty
\* when no model answered); the failure classes are kept when the model list
\* was exhausted.
AnalyzeReturns(res, path, newret, body) ==
    /\ gemini_result' = res.result
    /\ error' = res.error
    /\ ret' = [newret EXCEPT !["analyze"] =
                  Some([result |-> res.result, error |-> res.error, path |-> path,
                        body |-> body,
                        failures |-> IF path = "exhausted" THEN failures ELSE {}])]
    /\ model_idx' = 0
    /\ failures' = {}
    /\ pc' = "analyzed"

\* analyze_with_gemini is entered and calls detect_language_mismatch, which
\* returns at once on a transcript that is too short, and else calls the
\* detection service.
AnalyzeEnter ==
    /\ pc = "analyzing"
    /\ IF DetectShortCircuit(transcript)
       THEN /\ ret' = [ret EXCEPT !["detect"] =
                          Some(detect_language_mismatch(transcript, language,
                                                        [kind |-> "other", language |-> <<>>]))]
            /\ pc' = "build_prompt"
            /\ UNCHANGED calls
       ELSE /\ calls' = [calls EXCEPT !["detect"] = @ + 1]
            /\ pc' = "await_detect"
            /\ UNCHANGED ret
    /\ UNCHANGED << outside, request, events, locals, model_idx, attempted, failures >>

\* DetectReturn without the early return on a mismatch.
DetectReturn_NoEarlyReturn(det) ==
    /\ pc = "await_detect"
    /\ ret' = [ret EXCEPT !["detect_language"] = Some(det),
                          !["detect"] = Some(detect_language_mismatch(transcript, language, det))]
    /\ pc' = "build_prompt"
    /\ UNCHANGED << outside, request, events, locals, model_idx, calls, attempted, failures >>

\* The detection service answers; on a mismatch analyze_with_gemini returns
\* the canned reply without entering the try block.
DetectReturn(det) ==
    /\ pc = "await_detect"
    /\ LET r == detect_language_mismatch(transcript, language, det)
           newret == [ret EXCEPT !["detect_language"] = Some(det), !["detect"] = Some(r)]
       IN  IF r.is_mismatch
           THEN /\ AnalyzeReturns([result |-> WrongLanguageResult(language, dialect, r.message),
                                   error |-> None], "mismatch", newret, <<>>)
                /\ UNCHANGED << outside, request, events, transcript, native_response, translation,
                                audio_base64, calls, attempted >>
           ELSE /\ ret' = newret
                /\ pc' = "build_prompt"
                /\ UNCHANGED << outside, request, events, locals, model_idx, calls, attempted,
                                failures >>

\* The start of the try block: the prompt is built from the history.
BuildPrompt ==
    /\ pc = "build_prompt"
    /\ LET h == BuildHistoryText(conversation_history)
       IN  IF h.some
           THEN /\ AnalyzeReturns(OuterHandler(h.v, language, dialect), "prompt_error", ret, <<>>)
                /\ UNCHANGED << outside, request, events, transcript, native_response, translation,
                                audio_base64, calls, attempted >>
           ELSE /\ model_idx' = 1
                /\ pc' = "model_loop"
                /\ UNCHANGED << outside, request, events, locals, calls, attempted, failures, ret >>

\* One iteration of `for model_name in models_to_try`: the call.
GenerateCall ==
    /\ pc = "model_loop"
    /\ model_idx <= Len(models_to_try)
    /\ calls' = [calls EXCEPT !["generate"] = @ + 1]
    /\ attempted' = Append(attempted, models_to_try[model_idx])
    /\ pc' = "await_generate"
    /\ UNCHANGED << outside, request, events, locals, model_idx, failures, ret >>

\* GenerateFails retrying the same model.
GenerateFails_NoAdvance(o) ==
    /\ pc = "await_generate"
    /\ o.kind = "raise"
    /\ failures' = failures \cup {AttemptFailureClass(o.text)}
    /\ model_idx' = IF AttemptFailureClass(o.text) = "other" THEN model_idx ELSE model_idx + 1
    /\ pc' = "model_loop"
    /\ UNCHANGED << outside, request, events, locals, calls, attempted, ret >>

\* The call raises: logged by class, `continue`.
GenerateFails(o) ==
    /\ pc = "await_generate"
    /\ o.kind = "raise"
    /\ failures' = failures \cup {AttemptFailureClass(o.text)}
    /\ model_idx' = model_idx + 1
    /\ pc' = "model_loop"
    /\ UNCHANGED << outside, request, events, locals, calls, attempted, ret >>

\* The call answers: `break`, then the body is read and parsed.
GenerateAnswers(o) ==
    /\ pc = "await_generate"
    /\ o.kind # "raise"
    /\ IF o.kind = "blocked"
       THEN AnalyzeReturns(OuterHandler(o.text, language, dialect), "text_error", ret, <<>>)
       ELSE AnalyzeReturns(ParseResponse(o.text, language, dialect), "answered", ret, o.text)
    /\ UNCHANGED << outside, request, events, transcript, native_response, translation,
                    audio_base64, calls, attempted >>

\* The loop ends with response still None: the raise reaches the outer handler.
ModelsExhausted ==
    /\ pc = "model_loop"
    /\ model_idx > Len(models_to_try)
    /\ AnalyzeReturns(OuterHandler(AllModelsMessage, language, dialect), "exhausted", ret, <<>>)
    /\ UNCHANGED << outside, request, events, transcript, native_response, translation,
                    audio_base64, calls, attempted >>

\* YieldAnalysis that answers a failed analysis by going back to the
\* transcription of the same audio.
YieldAnalysis_StartOver ==
    /\ pc = "analyzed"
    /\ IF Truthy(error)
       THEN /\ pc' = "transcribing"
            /\ UNCHANGED events
       ELSE /\ Yield(AnalysisEvent(gemini_result))
            /\ pc' = "analysis_sent"
    /\ UNCHANGED << outside, request, locals, model_idx, calls, attempted, failures, ret >>

\* Back in generate_events: the error event, or the analysis event.
YieldAnalysis ==
    /\ pc = "analyzed"
    /\ IF Truthy(error)
       THEN /\ Yield(ErrorEvent(error.v))
            /\ pc' = "done"
       ELSE /\ Yield(AnalysisEvent(gemini_result))
            /\ pc' = "analysis_sent"
    /\ UNCHANGED << outside, request, locals, model_idx, calls, attempted, failures, ret >>

\* YieldTranslating without its progress event.
YieldTranslating_Silent ==
    /\ pc = "analysis_sent"
    /\ pc' = "translating"
    /\ UNCHANGED << outside, request, events, locals, model_idx, calls, attempted, failures, ret >>

\* Step 4: the progress event of the translation.
YieldTranslating ==
    /\ pc = "analysis_sent"
    /\ Yield(Progress("translating", T("Creating subtitles..."), 65))
    /\ pc' = "translating"
    /\ UNCHANGED << outside, request, locals, model_idx, calls, attempted, failures, ret >>

\* translate_text(native_response, language): the call to the translation service.
TranslateCall ==
    /\ pc = "translating"
    /\ native_response' = gemini_result.response
    /\ calls' = [calls EXCEPT !["translate"] = @ + 1]
    /\ pc' = "await_translate"
    /\ UNCHANGED << outside, request, events, transcript, error, gemini_result, translation,
                    audio_base64, model_idx, attempted, failures, ret >>

\* TranslateReturn calling the translator again after a failure.
TranslateReturn_Retry(o) ==
    /\ pc = "await_translate"
    /\ LET r == translate_text(o)
           english == IF Truthy(r.error) THEN TranslationPlaceholder ELSE r.text
       IN  /\ error' = r.error
           /\ translation' = english
           /\ ret' = [ret EXCEPT !["translate"] = Some(r)]
           /\ IF Truthy(r.error) /\ calls["translate"] < 2
              THEN pc' = "translating" /\ UNCHANGED events
              ELSE pc' = "translation_sent"
                   /\ Yield(TranslationEvent(native_response, english))
    /\ UNCHANGED << outside, request, transcript, gemini_result, native_response, audio_base64,
                    model_idx, calls, attempted, failures >>

\* TranslateReturn that keeps the adapter's empty text on failure.
TranslateReturn_NoPlaceholder(o) ==
    /\ pc = "await_translate"
    /\ LET r == translate_text(o)
       IN  /\ error' = r.error
           /\ translation' = r.text
           /\ ret' = [ret EXCEPT !["translate"] = Some(r)]
           /\ Yield(TranslationEvent(native_response, r.text))
    /\ pc' = "translation_sent"
    /\ UNCHANGED << outside, request, transcript, gemini_result, native_response, audio_base64,
                    model_idx, calls, attempted, failures >>

\* translate_text returns; the placeholder replaces a failed translation.
TranslateReturn(o) ==
    /\ pc = "await_translate"
    /\ LET r == translate_text(o)
           english == IF Truthy(r.error) THEN TranslationPlaceholder ELSE r.text
       IN  /\ error' = r.error
           /\ translation' = english
           /\ ret' = [ret EXCEPT !["translate"] = Some(r)]
           /\ Yield(TranslationEvent(native_response, english))
    /\ pc' = "translation_sent"
    /\ UNCHANGED << outside, request, transcript, gemini_result, native_response, audio_base64,
                    model_idx, calls, attempted, failures >>

\* YieldSynthesizing without the event.
YieldSynthesizing_Silent ==
    /\ pc = "translation_sent"
    /\ pc' = "synthesizing"
    /\ UNCHANGED << outside, request, events, locals, model_idx, calls, attempted, failures,
                    ret >>

\* Step 5: the progress event of the synthesis.
YieldSynthesizing ==
    /\ pc = "translation_sent"
    /\ Yield(Progress("synthesizing",
                      T(dialect_config.name) \o T("is preparing to speak..."), 85))
    /\ pc' = "synthesizing"
    /\ UNCHANGED << outside, request, locals, model_idx, calls, attempted, failures, ret >>

\* await synthesize_speech(...): the POST to the voice service.
SynthesizeCall ==
    /\ pc = "synthesizing"
    /\ calls' = [calls EXCEPT !["synthesize"] = @ + 1]
    /\ ret' = [ret EXCEPT !["synthesize_voice"] = Some(SynthVoice(language, dialect))]
    /\ pc' = "await_synthesize"
    /\ UNCHANGED << outside, request, events, locals, model_idx, attempted, failures >>

\* SynthesizeReturn that treats a failed synthesis as fatal.
SynthesizeReturn_Abort(o) ==
    /\ pc = "await_synthesize"
    /\ LET r == synthesize_speech(o)
       IN  /\ error' = r.error
           /\ audio_base64' = r.audio
           /\ ret' = [ret EXCEPT !["synthesize"] = Some(r)]
           /\ IF Truthy(r.error)
              THEN /\ Yield(ErrorEvent(r.error.v))
                   /\ pc' = "done"
              ELSE /\ Yield(Progress("complete", T("Ready!"), 100))
                   /\ pc' = "complete_pending"
    /\ UNCHANGED << outside, request, transcript, gemini_result, native_response, translation,
                    model_idx, calls, attempted, failures >>

\* synthesize_speech returns; empty audio replaces a failed synthesis; step 6's
\* progress event follows.
SynthesizeReturn(o) ==
    /\ pc = "await_synthesize"
    /\ LET r == synthesize_speech(o)
       IN  /\ error' = r.error
           /\ audio_base64' = IF Truthy(r.error) THEN <<>> ELSE r.audio
           /\ ret' = [ret EXCEPT !["synthesize"] = Some(r)]
    /\ Yield(Progress("complete", T("Ready!"), 100))
    /\ pc' = "complete_pending"
    /\ UNCHANGED << outside, request, transcript, gemini_result, native_response, translation,
                    model_idx, calls, attempted, failures >>

\* The complete event; the generator ends.
YieldComplete ==
    /\ pc = "complete_pending"
    /\ Yield(CompleteEvent)
    /\ pc' = "done"
    /\ UNCHANGED << outside, request, locals, model_idx, calls, attempted, failures, ret >>

\* ------------------------------------------------------------------------
\* The middleware in front of the routes
\* ------------------------------------------------------------------------

\* rate_limit_middleware over a limiter that keeps one list for all clients:
\* the check reads the list of the first client whatever the caller.
MiddlewareResult_OneList(c, path) ==
    IF SkipPaths(path)
    THEN [requests |-> requests[c],
          response |-> [client |-> c, path |-> path, time |-> now, limited |-> FALSE,
                        allowed |-> TRUE, retry_after |-> None,
                        status |-> RouteStatus(path)]]
    ELSE LET r == is_allowed(requests["10.0.0.1"], now)
         IN  [requests |-> r.requests,
              response |-> [client |-> c, path |-> path, time |-> now, limited |-> TRUE,
                            allowed |-> r.allowed, retry_after |-> r.retry_after,
                            status |-> IF r.allowed THEN RouteStatus(path) ELSE 429]]

\* What rate_limit_middleware does for client c asking for `path`: the answer
\* of is_allowed (none when the path is skipped), the list it leaves, and the
\* response: 429 on a denial, else the router's.
MiddlewareResult(c, path) ==
    IF SkipPaths(path)
    THEN [requests |-> requests[c],
          response |-> [client |-> c, path |-> path, time |-> now, limited |-> FALSE,
                        allowed |-> TRUE, retry_after |-> None,
                        status |-> RouteStatus(path)]]
    ELSE LET r == is_allowed(requests[c], now)
         IN  [requests |-> r.requests,
              response |-> [client |-> c, path |-> path, time |-> now, limited |-> TRUE,
                            allowed |-> r.allowed, retry_after |-> r.retry_after,
                            status |-> IF r.allowed THEN RouteStatus(path) ELSE 429]]

\* The count of the client's rate-limited requests, restarted by the request
\* that finds no timestamp of the client inside the window; `log` holds the
\* times of all the admitted requests of the client, and is never restarted.
CountRequest(c, m) ==
    IF ~m.response.limited THEN stats[c]
    ELSE IF Prune(requests[c], now) = <<>>
    THEN [limited |-> 1, admitted |-> 1, first |-> now, last |-> now,
          log |-> Append(stats[c].log, now)]
    ELSE [limited |-> stats[c].limited + 1,
          admitted |-> stats[c].admitted + (IF m.response.allowed THEN 1 ELSE 0),
          first |-> stats[c].first, last |-> now,
          log |-> IF m.response.allowed THEN Append(stats[c].log, now) ELSE stats[c].log]

\* Followed(c, path): the request is one the counters of c still have room for.
Followed(c, path) ==
    SkipPaths(path) \/ Prune(requests[c], now) = <<>> \/ stats[c].limited < MaxRequests

\* rate_limit_middleware that logs a denial and goes on to call_next.
Middleware_NoReturn(c, path) ==
    LET m == MiddlewareResult(c, path)
    IN  /\ Followed(c, path)
        /\ requests' = [requests EXCEPT ![c] = m.requests]
        /\ response' = [m.response EXCEPT !.status = RouteStatus(path)]
        /\ stats' = [stats EXCEPT ![c] = CountRequest(c, m)]
        /\ UNCHANGED now

\* rate_limit_middleware, up to the response or to call_next.
Middleware(c, path) ==
    LET m == MiddlewareResult(c, path)
    IN  /\ Followed(c, path)
        /\ requests' = [requests EXCEPT ![c] = m.requests]
        /\ response' = m.response
        /\ stats' = [stats EXCEPT ![c] = CountRequest(c, m)]
        /\ UNCHANGED now

\* A request for a route that starts no pipeline.
Request(c, path) ==
    /\ Middleware(c, path)
    /\ UNCHANGED << pipeline, form, concurrent >>

\* A request for /converse: the route runs only when call_next is reached.
ConverseRequest(c, lang, d, n, h) ==
    /\ pc = "idle"
    /\ Middleware(c, ConversePath)
    /\ IF response'.status = 429
       THEN UNCHANGED << pipeline, form >>
       ELSE Converse(lang, d, n, h) /\ form' = [language |-> lang, dialect |-> d]
    /\ UNCHANGED concurrent

\* Time passes.
Advance(t) ==
    /\ t > now
    /\ now' = t
    /\ UNCHANGED << pipeline, requests, response, stats, form, concurrent >>

Next ==
    \/ \E lang \in LanguageInputs, d \in DialectInputs, n \in AudioLens, h \in HistoryInputs :
          Converse(lang, d, n, h) /\ UNCHANGED outside
    \/ YieldReceiving
    \/ CheckAudio
    \/ TranscribeCall
    \/ \E o \in SpeechOutcomes : TranscribeReturn(o)
    \/ YieldAnalyzing
    \/ AnalyzeEnter
    \/ \E det \in DetectOutcomes : DetectReturn(det)
    \/ BuildPrompt
    \/ GenerateCall
    \/ \E o \in GenerateOutcomes : GenerateFails(o)
    \/ \E o \in GenerateOutcomes : GenerateAnswers(o)
    \/ ModelsExhausted
    \/ YieldAnalysis
    \/ YieldTranslating
    \/ TranslateCall
    \/ \E o \in TranslateOutcomes : TranslateReturn(o)
    \/ YieldSynthesizing
    \/ SynthesizeCall
    \/ \E o \in SynthOutcomes : SynthesizeReturn(o)
    \/ YieldComplete

Spec == Init /\ [][Next]_vars

\* ------------------------------------------------------------------------
\* The mismatch detector on its own
\* ------------------------------------------------------------------------

\* The codes the detection service is given to answer with: every target
\* language, regional variants of them, other languages, and no language.
AllDetectedCodes ==
    { <<"it">>, <<"IT">>, <<"it", "IT">>, <<"es">>, <<"es", "MX">>, <<"es", "419">>,
      <<"fr">>, <<"fr", "CA">>, <<"de">>, <<"de", "AT">>, <<"ja">>, <<"ja", "JP">>,
      <<"en">>, <<"en", "US">>, <<"pt", "BR">>, <<"zh", "CN">>, <<"und">>, <<>> }

AllDetectOutcomes ==
    [kind : {"dict", "list"}, language : AllDetectedCodes]
    \cup [kind : {"empty_list", "other", "raise"}, language : {<<>>}]

TargetLanguages == (DOMAIN SUPPORTED_LANGUAGES) \cup {"klingon"}

\* One call of detect_language_mismatch(t, lang) during which the detection
\* service, if it is called, does `det`.
DetectCall(t, lang, det) ==
    /\ pc = "idle"
    /\ transcript' = t
    /\ language' = lang
    /\ ret' = [ret EXCEPT !["detect_language"] =
                              IF DetectShortCircuit(t) THEN None ELSE Some(det),
                          !["detect"] = Some(detect_language_mismatch(t, lang, det))]
    /\ pc' = "detected"
    /\ UNCHANGED << outside, dialect, audio_len, conversation_history, events, error,
                    gemini_result, native_response, translation, audio_base64,
                    model_idx, calls, attempted, failures >>

NextDetect ==
    \E t \in Transcripts, lang \in TargetLanguages, det \in AllDetectOutcomes :
        DetectCall(t, lang, det)

SpecDetect == Init /\ [][NextDetect]_vars

\* ------------------------------------------------------------------------
\* The rate limiter under the requests of one client
\* ------------------------------------------------------------------------

NextLimiter ==
    \/ \E c \in {"10.0.0.1"} : Request(c, <<"greeting">>)
    \/ \E t \in Instants : Advance(t)

SpecLimiter == Init /\ [][NextLimiter]_vars

\* ------------------------------------------------------------------------
\* The service behind its middleware
\* ------------------------------------------------------------------------

\* Two clients ask for every route.  One /converse request is followed into
\* its pipeline, as far as its first external call; the admitted requests
\* before it are those for /greeting, which the limiter treats alike.  All
\* requests arrive within the same clock reading.
NextHttp ==
    \/ \E c \in Clients, path \in Paths : Request(c, path)
    \/ \E c \in Clients, h \in {[parses |-> FALSE, value |-> [type |-> "list", items |-> <<>>]]} :
          ConverseRequest(c, "italian", "", MIN_AUDIO_BYTES, h)
    \/ YieldReceiving
    \/ CheckAudio
    \/ TranscribeCall

SpecHttp == Init /\ [][NextHttp]_vars

\* ------------------------------------------------------------------------
\* Two clients at the rate limiter
\* ------------------------------------------------------------------------

NextClients ==
    \/ \E c \in Clients : Request(c, <<"greeting">>)
    \/ \E c \in Clients : Request(c, <<"health">>)

SpecClients == Init /\ [][NextClients]_vars

\* ------------------------------------------------------------------------
\* Persona resolution on its own
\* ------------------------------------------------------------------------

\* The language keys sent: the catalog's, an unknown one and the empty one.
FormLanguages == (DOMAIN SUPPORTED_LANGUAGES) \cup {"klingon", ""}

\* The dialect keys sent: every dialect of the catalog, an unknown one and the
\* empty one.
FormDialects ==
    UNION { {SUPPORTED_LANGUAGES[l].dialects[i].key : i \in DOMAIN SUPPORTED_LANGUAGES[l].dialects} :
              l \in DOMAIN SUPPORTED_LANGUAGES }
    \cup {"cockney", ""}

\* converse called with the parameters (lang, d), up to the creation of the
\* generator.
ConverseWith(lang, d) ==
    /\ Converse(lang, d, MIN_AUDIO_BYTES, [parses |-> TRUE, value |-> [type |-> "list", items |-> <<>>]])
    /\ form' = [language |-> lang, dialect |-> d]
    /\ UNCHANGED << limiter, concurrent >>

NextPersona == \E lang \in FormLanguages, d \in FormDialects : ConverseWith(lang, d)

SpecPersona == Init /\ [][NextPersona]_vars

\* ------------------------------------------------------------------------
\* The pipeline under exceptions that no adapter converts
\* ------------------------------------------------------------------------

\* str(e) of such an exception.
UnexpectedMessages ==
    { <<"division", "by", "zero">>, <<"Object", "is", "not", "JSON", "serializable">> }

\* The message of the generator's `except Exception` handler.
GenericMessage == T("Something went wrong. Please try again!")

\* Unexpected with the exception's text in the event.
Unexpected_LeakMessage(msg) ==
    /\ pc \notin {"idle", "detected", "done"}
    /\ ret' = [ret EXCEPT !["generate_events"] = Some(msg)]
    /\ Yield(ErrorEvent(msg))
    /\ model_idx' = 0
    /\ failures' = {}
    /\ pc' = "done"
    /\ UNCHANGED << outside, request, locals, calls, attempted >>

\* An exception is raised somewhere inside the try block of generate_events,
\* the calls it is waiting for included, before a terminal event was yielded:
\* the handler logs it and yields the generic error event, and the generator
\* ends.
Unexpected(msg) ==
    /\ pc \notin {"idle", "detected", "done"}
    /\ ret' = [ret EXCEPT !["generate_events"] = Some(msg)]
    /\ Yield(ErrorEvent(GenericMessage))
    /\ model_idx' = 0
    /\ failures' = {}
    /\ pc' = "done"
    /\ UNCHANGED << outside, request, locals, calls, attempted >>

NextFault ==
    \/ Next
    \/ \E msg \in UnexpectedMessages : Unexpected(msg)

SpecFault == Init /\ [][NextFault]_vars

\* ------------------------------------------------------------------------
\* One /converse request whose generator is always resumed
\* ------------------------------------------------------------------------

\* The steps of a request that has entered generate_events: the streaming
\* response asks the generator for its next event after each yield, every
\* external call returns or raises, and an exception of the generator's own
\* code reaches its handler.
Resume ==
    \/ YieldReceiving
    \/ CheckAudio
    \/ TranscribeCall
    \/ \E o \in {x \in SpeechOutcomes : x.kind # "results" \/ x.text = <<"c", "i", "a", "o">>} :
          TranscribeReturn(o)
    \/ YieldAnalyzing
    \/ AnalyzeEnter
    \/ \E det \in {x \in DetectOutcomes : x.kind = "dict" /\ x.language \in {<<"it">>, <<"en">>}} :
          DetectReturn(det)
    \/ BuildPrompt
    \/ GenerateCall
    \/ \E o \in {x \in GenerateOutcomes : x.text = <<"Quota", "exceeded", "for", "model">>} :
          GenerateFails(o)
    \/ \E o \in {x \in GenerateOutcomes : x.text \in {<<"{full}">>, <<"[1]">>}} :
          GenerateAnswers(o)
    \/ ModelsExhausted
    \/ YieldAnalysis
    \/ YieldTranslating
    \/ TranslateCall
    \/ \E o \in TranslateOutcomes : TranslateReturn(o)
    \/ YieldSynthesizing
    \/ SynthesizeCall
    \/ \E o \in SynthOutcomes : SynthesizeReturn(o)
    \/ YieldComplete
    \/ \E msg \in UnexpectedMessages : Unexpected(msg)

NextLive ==
    \/ \E n \in {0, MIN_AUDIO_BYTES} :
          Converse("italian", "", n, [parses |-> FALSE, value |-> [type |-> "list", items |-> <<>>]])
          /\ UNCHANGED outside
    \/ Resume

SpecLive == Init /\ [][NextLive]_vars /\ WF_vars(Resume)

\* ------------------------------------------------------------------------
\* Two /converse requests on the one event loop
\* ------------------------------------------------------------------------

\* The positions a pipeline can reach next from position p: the control flow
\* of generate_events and of analyze_with_gemini, whatever the data.
Flow(p) ==
    CASE p = "start"            -> {"receiving"}
      [] p = "receiving"        -> {"transcribing", "done"}
      [] p = "transcribing"     -> {"await_transcribe"}
      [] p = "await_transcribe" -> {"transcript_sent", "done"}
      [] p = "transcript_sent"  -> {"analyzing"}
      [] p = "analyzing"        -> {"await_detect", "build_prompt"}
      [] p = "await_detect"     -> {"build_prompt", "analyzed"}
      [] p = "build_prompt"     -> {"model_loop", "analyzed"}
      [] p = "model_loop"       -> {"await_generate", "analyzed"}
      [] p = "await_generate"   -> {"model_loop", "analyzed"}
      [] p = "analyzed"         -> {"analysis_sent", "done"}
      [] p = "analysis_sent"    -> {"translating"}
      [] p = "translating"      -> {"await_translate"}
      [] p = "await_translate"  -> {"translation_sent"}
      [] p = "translation_sent" -> {"synthesizing"}
      [] p = "synthesizing"     -> {"await_synthesize"}
      [] p = "await_synthesize" -> {"complete_pending"}
      [] p = "complete_pending" -> {"done"}
      [] OTHER                  -> {}

\* The positions at which a pipeline is inside synchronous code and keeps the
\* event loop's thread: speech_client.recognize, translate_client.translate
\* and the whole of analyze_with_gemini (detect_language, generate_content)
\* are plain calls, not awaited.  At every other position the pipeline is
\* suspended, at a yield or in `await http_client.post`.
HoldsLoop(p) ==
    p \in {"await_transcribe", "await_detect", "build_prompt", "model_loop",
           "await_generate", "analyzed", "await_translate"}

\* The second request is admitted and its generator is created.
OtherArrives ==
    /\ other.pc = "idle"
    /\ ~HoldsLoop(pc)
    /\ other' = [pc |-> "start", attempts |-> 0]
    /\ UNCHANGED << pipeline, limiter, form, checks >>

\* One step of the second request's pipeline, taken when the event loop is
\* not kept by the first.
OtherStep ==
    /\ ~HoldsLoop(pc)
    /\ \E q \in Flow(other.pc) :
          /\ (other.pc = "model_loop" /\ q = "await_generate") =>
                 other.attempts < Len(models_to_try)
          /\ (other.pc = "model_loop" /\ q = "analyzed") =>
                 other.attempts = Len(models_to_try)
          /\ other' = [pc |-> q,
                       attempts |-> IF q = "await_generate"
                                    THEN other.attempts + 1 ELSE other.attempts]
    /\ UNCHANGED << pipeline, limiter, form, checks >>

\* A step of the followed request, taken when the event loop is not kept by
\* the second.
Scheduled(step) == ~HoldsLoop(other.pc) /\ step

NextTwo ==
    \/ Scheduled(Converse("italian", "", MIN_AUDIO_BYTES,
                          [parses |-> FALSE, value |-> [type |-> "list", items |-> <<>>]])
                 /\ UNCHANGED outside)
    \/ Scheduled(YieldReceiving)
    \/ Scheduled(CheckAudio)
    \/ Scheduled(TranscribeCall)
    \/ \E o \in {x \in SpeechOutcomes : x.kind = "no_results" \/ x.text = <<"c", "i", "a", "o">>} :
          Scheduled(TranscribeReturn(o))
    \/ Scheduled(YieldAnalyzing)
    \/ Scheduled(AnalyzeEnter)
    \/ \E det \in {x \in DetectOutcomes : x.kind = "dict" /\ x.language \in {<<"it">>, <<"en">>}} :
          Scheduled(DetectReturn(det))
    \/ Scheduled(BuildPrompt)
    \/ Scheduled(GenerateCall)
    \/ \E o \in {x \in GenerateOutcomes : x.text = <<"Quota", "exceeded", "for", "model">>} :
          Scheduled(GenerateFails(o))
    \/ \E o \in {x \in GenerateOutcomes : x.text = <<"{full}">>} :
          Scheduled(GenerateAnswers(o))
    \/ Scheduled(ModelsExhausted)
    \/ Scheduled(YieldAnalysis)
    \/ Scheduled(YieldTranslating)
    \/ Scheduled(TranslateCall)
    \/ \E o \in {x \in TranslateOutcomes : x.kind = "raise"} : Scheduled(TranslateReturn(o))
    \/ Scheduled(YieldSynthesizing)
    \/ Scheduled(SynthesizeCall)
    \/ \E o \in {x \in SynthOutcomes : x.kind = "timeout"} : Scheduled(SynthesizeReturn(o))
    \/ Scheduled(YieldComplete)
    \/ OtherArrives
    \/ OtherStep

SpecTwo == Init /\ [][NextTwo]_vars

\* ------------------------------------------------------------------------
\* Admission checks of concurrent requests of one client, statement by
\* statement
\* ------------------------------------------------------------------------

\* Uninterrupted under a scheduler that may switch between any two statements.
Uninterrupted_Preemptive(r) == r \in Slots

\* is_allowed and the middleware around it contain no await: the request that
\* has entered is_allowed keeps the event loop's thread until it returns, so
\* no other request is inside is_allowed meanwhile.
Uninterrupted(r) == \A q \in Slots \ {r} : checks[q].pc = "idle"

\* `now = time.time()` and the list comprehension over self.requests[c].
CheckPrune(c, r) ==
    /\ Uninterrupted(r)
    /\ checks[r].pc = "idle"
    /\ stats[c].limited < MaxRequests
    /\ checks' = [checks EXCEPT ![r] =
                     [pc |-> "filtered", now |-> now, kept |-> Prune(requests[c], now)]]
    /\ UNCHANGED << pipeline, limiter, form, other >>

\* `self.requests[client_ip] = [...]`: the filtered list is stored.
CheckStore(c, r) ==
    /\ Uninterrupted(r)
    /\ checks[r].pc = "filtered"
    /\ requests' = [requests EXCEPT ![c] = checks[r].kept]
    /\ checks' = [checks EXCEPT ![r].pc = "stored"]
    /\ UNCHANGED << pipeline, now, response, stats, form, other >>

\* `if len(self.requests[client_ip]) >= self.max_requests`: the denial is
\* returned and answered 429, or the check goes on to the append.
CheckCount(c, r) ==
    /\ Uninterrupted(r)
    /\ checks[r].pc = "stored"
    /\ IF Len(requests[c]) >= RATE_LIMIT_REQUESTS
       THEN /\ response' = [client |-> c, path |-> <<"greeting">>, time |-> checks[r].now,
                            limited |-> TRUE, allowed |-> FALSE,
                            retry_after |-> Some(RetryAfter(requests[c], checks[r].now)),
                            status |-> 429]
            /\ stats' = [stats EXCEPT ![c].limited = @ + 1, ![c].last = checks[r].now]
            /\ checks' = [checks EXCEPT ![r] = NoCheck]
       ELSE /\ checks' = [checks EXCEPT ![r].pc = "admitting"]
            /\ UNCHANGED << response, stats >>
    /\ UNCHANGED << pipeline, requests, now, form, other >>

\* `self.requests[client_ip].append(now)` and `return True, None`; the
\* middleware goes on to call_next.
CheckAppend(c, r) ==
    /\ Uninterrupted(r)
    /\ checks[r].pc = "admitting"
    /\ requests' = [requests EXCEPT ![c] = Append(@, checks[r].now)]
    /\ response' = [client |-> c, path |-> <<"greeting">>, time |-> checks[r].now,
                    limited |-> TRUE, allowed |-> TRUE, retry_after |-> None,
                    status |-> RouteStatus(<<"greeting">>)]
    /\ stats' = [stats EXCEPT ![c].limited = @ + 1, ![c].admitted = @ + 1,
                              ![c].last = checks[r].now,
                              ![c].log = Append(@, checks[r].now)]
    /\ checks' = [checks EXCEPT ![r] = NoCheck]
    /\ UNCHANGED << pipeline, now, form, other >>

NextAtomic ==
    \/ \E r \in Slots : CheckPrune("10.0.0.1", r)
    \/ \E r \in Slots : CheckStore("10.0.0.1", r)
    \/ \E r \in Slots : CheckCount("10.0.0.1", r)
    \/ \E r \in Slots : CheckAppend("10.0.0.1", r)

SpecAtomic == Init /\ [][NextAtomic]_vars

\* ------------------------------------------------------------------------
\* Properties of the event stream
\* ------------------------------------------------------------------------

Terminal(e) == e.event \in {"complete", "error"}

\* progress(step) for a progress event, the event's kind otherwise.
Label(e) == IF e.event = "progress" THEN <<"progress", e.step>> ELSE <<e.event>>

Labels == [i \in DOMAIN events |-> Label(events[i])]

Last == events[Len(events)]

EndsWith(kind) == events # <<>> /\ Last.event = kind

HasEvent(kind) == \E i \in DOMAIN events : events[i].event = kind

Returned(a) == ret[a].some

CompleteLabels ==
    << <<"progress", "receiving">>, <<"progress", "transcribing">>, <<"transcript">>,
       <<"progress", "analyzing">>, <<"analysis">>, <<"progress", "translating">>,
       <<"translation">>, <<"progress", "synthesizing">>, <<"progress", "complete">>,
       <<"complete">> >>

IsPrefix(s, t) == Len(s) <= Len(t) /\ s = SubSeq(t, 1, Len(s))

\* C1: a terminal event (complete or error) is always the last event of the
\* stream, so there is never a second one and nothing follows it; and the
\* generator has ended exactly when the stream ends with a terminal event.
C1_OneTerminalEventLast ==
    /\ \A i \in DOMAIN events : Terminal(events[i]) => i = Len(events)
    /\ (pc = "done") <=> (events # <<>> /\ Terminal(Last))

C1_Witness ==
    /\ pc = "done"
    /\ EndsWith("error")
    /\ Len(events) = 5

\* C2: a complete event is in the stream only if transcribe_audio returned a
\* non-empty transcript with no error and analyze_with_gemini returned a
\* result with no error.
C2_CompleteOnlyAfterSuccess ==
    HasEvent("complete") =>
        /\ Returned("transcribe")
        /\ ret["transcribe"].v.error = None
        /\ ret["transcribe"].v.transcript # <<>>
        /\ Returned("analyze")
        /\ ret["analyze"].v.error = None
        /\ ret["analyze"].v.result # NoResult

C2_Witness ==
    /\ HasEvent("complete")
    /\ ret["analyze"].v.path = "answered"

\* C3: a stream that ends with complete is exactly progress(receiving),
\* progress(transcribing), transcript, progress(analyzing), analysis,
\* progress(translating), translation, progress(synthesizing),
\* progress(complete), complete - also when feedback, translation or
\* synthesis fell back to a substitute.
C3_CompleteStreamOrder ==
    EndsWith("complete") => Labels = CompleteLabels

C3_Witness ==
    /\ EndsWith("complete")
    /\ ret["analyze"].v.path = "exhausted"
    /\ ret["translate"].v.error # None
    /\ ret["synthesize"].v.error # None

ShortAudioLabels == << <<"progress", "receiving">>, <<"error">> >>

NoCalls(S) == \A st \in S : calls[st] = 0

\* C4 as stated: a request whose audio is below the threshold ends with a
\* stream that holds one error event and nothing else.
C4_ShortAudioOnlyError ==
    (pc = "done" /\ audio_len < MIN_AUDIO_BYTES) =>
        (Len(events) = 1 /\ events[1].event = "error")

\* C4, amended: a request whose audio is below the threshold emits
\* progress(receiving), then one error event ("Audio too short..."), and no
\* other event; no external service is called.
C4_ShortAudioProgressThenError ==
    (pc # "idle" /\ audio_len < MIN_AUDIO_BYTES) =>
        /\ IsPrefix(Labels, ShortAudioLabels)
        /\ NoCalls(Stages)
        /\ pc \in {"start", "receiving", "done"}
        /\ pc = "done" =>
              /\ Labels = ShortAudioLabels
              /\ Last.message = T("Audio too short. Please speak for at least 1 second.")

C4_Witness ==
    /\ pc = "done"
    /\ audio_len = MIN_AUDIO_BYTES - 1
    /\ Len(events) = 2

TranscriptionFailed ==
    /\ Returned("transcribe")
    /\ (ret["transcribe"].v.error # None \/ ret["transcribe"].v.transcript = <<>>)

\* C5: once transcribe_audio has returned an error or an empty transcript, the
\* stream has ended with an error event; it holds no transcript, analysis,
\* translation or complete event, and the detection, generation, translation
\* and synthesis services are never called.
C5_TranscriptionFailureAborts ==
    TranscriptionFailed =>
        /\ pc = "done"
        /\ EndsWith("error")
        /\ Labels = << <<"progress", "receiving">>, <<"progress", "transcribing">>,
                       <<"error">> >>
        /\ ~HasEvent("transcript") /\ ~HasEvent("analysis")
        /\ ~HasEvent("translation") /\ ~HasEvent("complete")
        /\ NoCalls({"detect", "generate", "translate", "synthesize"})

C5_Witness ==
    /\ Returned("transcribe")
    /\ ret["transcribe"].v.error = None
    /\ ret["transcribe"].v.transcript = <<>>
    /\ pc = "done"

TranslationFailed == Returned("translate") /\ ret["translate"].v.error # None

\* C6: once translate_text has failed, the stream holds no error event, the
\* english field of the translation event is the placeholder (not empty), the
\* pipeline stands in the synthesis steps or has ended, and when it has ended
\* it ended with a complete event whose english field is the placeholder.
C6_TranslationFailureDegrades ==
    TranslationFailed =>
        /\ ~HasEvent("error")
        /\ TranslationPlaceholder # <<>>
        /\ \E i \in DOMAIN events :
              events[i].event = "translation" /\ events[i].english = TranslationPlaceholder
        /\ pc \in {"translation_sent", "synthesizing", "await_synthesize",
                   "complete_pending", "done"}
        /\ pc = "done" =>
              (EndsWith("complete") /\ Last.response_english = TranslationPlaceholder)

C6_Witness ==
    /\ TranslationFailed
    /\ pc = "done"
    /\ ret["synthesize"].v.error = None

SynthesisFailed == Returned("synthesize") /\ ret["synthesize"].v.error # None

\* C7: once synthesize_speech has failed, the stream holds no error event, and
\* it ends with a complete event whose audio is empty and whose transcript,
\* feedback and translation fields are what the earlier stages produced.
C7_SynthesisFailureDegrades ==
    SynthesisFailed =>
        /\ ~HasEvent("error")
        /\ pc \in {"complete_pending", "done"}
        /\ pc = "done" =>
              /\ EndsWith("complete")
              /\ Last.audio_base64 = <<>>
              /\ Last.transcript = ret["transcribe"].v.transcript
              /\ Last.reaction = ret["analyze"].v.result.reaction
              /\ Last.correction = ret["analyze"].v.result.correction
              /\ Last.encouragement = ret["analyze"].v.result.encouragement
              /\ Last.cultural_note = ret["analyze"].v.result.cultural_note
              /\ Last.response_native = ret["analyze"].v.result.response
              /\ \E i \in DOMAIN events :
                    /\ events[i].event = "translation"
                    /\ events[i].native = Last.response_native
                    /\ events[i].english = Last.response_english
              /\ Last.response_english =
                    IF ret["translate"].v.error # None
                    THEN TranslationPlaceholder ELSE ret["translate"].v.text

C7_Witness ==
    /\ SynthesisFailed
    /\ pc = "done"
    /\ ret["translate"].v.error = None
    /\ ret["analyze"].v.path = "answered"

\* The detector reported a language (not the "unknown" / "error" of a failed or
\* undetermined detection) whose base code differs from the target's.
DetectedOtherLanguage ==
    /\ Returned("detect")
    /\ ret["detect"].v.detected \notin {<<"unknown">>, <<"error">>}
    /\ Head(ret["detect"].v.detected) # Head(Lower(lang_config.translate_code))

\* C8: when the detector reported a language whose base code differs from the
\* target's, no generative call is made, no error event is emitted, the
\* correction of the analysis and complete events is the mismatch message,
\* which names the detected and the target language, and the pipeline goes on
\* through translation to complete.
C8_MismatchSkipsGeneration ==
    DetectedOtherLanguage =>
        LET msg == ret["detect"].v.message
            names == DetectedName(ret["detect"].v.detected)
        IN  /\ calls["generate"] = 0
            /\ attempted = <<>>
            /\ ~HasEvent("error")
            /\ pc \notin {"build_prompt", "model_loop", "await_generate"}
            /\ Returned("analyze") /\ ret["analyze"].v.error = None
            /\ Contains(msg, lang_config.name)
            /\ \A k \in DOMAIN names : Contains(msg, names[k])
            /\ \A i \in DOMAIN events :
                  events[i].event \in {"analysis", "complete"} => events[i].correction = msg
            /\ pc = "done" => (EndsWith("complete") /\ HasEvent("translation"))

C8_Witness ==
    /\ DetectedOtherLanguage
    /\ ret["detect"].v.detected = <<"pt", "br">>
    /\ language = "spanish"
    /\ pc = "done"

\* Every model of the list was tried and failed.
AllModelsFailed ==
    /\ Returned("analyze")
    /\ ret["analyze"].v.path = "exhausted"

\* C9: when every model of the list failed with a quota-pattern error,
\* analyze_with_gemini returns the canned "Keep practicing!" fallback with no
\* error, no error event is emitted, and the stream ends with complete.
C9_QuotaExhaustionFallsBack ==
    (AllModelsFailed /\ ret["analyze"].v.failures = {"quota"}) =>
        /\ attempted = models_to_try
        /\ ret["analyze"].v.error = None
        /\ ret["analyze"].v.result = QuotaFallbackResult(language, dialect)
        /\ ~HasEvent("error")
        /\ pc = "done" =>
              (EndsWith("complete") /\ Last.encouragement = T("Keep practicing!"))

C9_Witness ==
    /\ AllModelsFailed
    /\ ret["analyze"].v.failures = {"quota"}
    /\ pc = "done"

\* C10: when every model of the list failed and no failure had the quota
\* pattern, analyze_with_gemini returns a hard error and the stream ends with
\* a single error event and no complete.
C10_UnrelatedFailuresAbort ==
    (AllModelsFailed /\ "quota" \notin ret["analyze"].v.failures) =>
        /\ ret["analyze"].v.error # None
        /\ ~HasEvent("complete")
        /\ pc = "done" => EndsWith("error")

\* A model answered and its body, after the fence extraction, is not JSON.
ModelAnsweredUnparsable ==
    /\ Returned("analyze")
    /\ ret["analyze"].v.path = "answered"
    /\ ~JsonLoads(ExtractFence(Strip(ret["analyze"].v.body))).some

\* C11: when a model answers and its body does not parse as JSON after the
\* fence extraction, analyze_with_gemini returns the canned "I heard you!"
\* reply with no error; no error event is emitted, the pipeline goes on to the
\* translating stage and the stream ends with complete.
C11_UnparsableBodyFallsBack ==
    ModelAnsweredUnparsable =>
        /\ ret["analyze"].v.error = None
        /\ ret["analyze"].v.result = ParseFallbackResult(language, dialect)
        /\ ret["analyze"].v.result.reaction = T("I heard you!")
        /\ ~HasEvent("error")
        /\ pc = "done" =>
              /\ Labels = CompleteLabels
              /\ Last.reaction = T("I heard you!")
              /\ Last.encouragement = T("Keep trying!")

C11_Witness ==
    /\ ModelAnsweredUnparsable
    /\ ret["analyze"].v.body = <<Fence, "JSON", "{full}", Fence>>
    /\ pc = "done"

\* The detection could not name a language: the transcript has fewer than two
\* characters, or the detector raised, or it answered with no language or with
\* "und".
DetectionProblem ==
    /\ Returned("detect")
    /\ \/ Len(transcript) < 2
       \/ /\ Returned("detect_language")
          /\ LET det == ret["detect_language"].v
             IN  \/ det.kind \in {"raise", "empty_list", "other"}
                 \/ Lower(det.language) \in {<<>>, <<"und">>}

\* C12: the mismatch detector fails open.  When the detection could not name a
\* language, detect_language_mismatch returns is_mismatch = FALSE with no
\* message; analyze_with_gemini goes on into its try block and, the history
\* being well formed, calls a model; it never returns the wrong-language
\* reply, and an error event can only come from a hard error of the
\* generation itself.
C12_DetectorFailsOpen ==
    DetectionProblem =>
        /\ ~ret["detect"].v.is_mismatch
        /\ ret["detect"].v.message = <<>>
        /\ ~Returned("analyze") => pc \in {"build_prompt", "model_loop", "await_generate"}
        /\ Returned("analyze") =>
              /\ ret["analyze"].v.path # "mismatch"
              /\ ~BuildHistoryText(conversation_history).some => calls["generate"] >= 1
        /\ HasEvent("error") =>
              /\ Returned("analyze")
              /\ ret["analyze"].v.error # None
              /\ ret["analyze"].v.path \in {"prompt_error", "text_error", "answered"}

C12_Witness ==
    /\ DetectionProblem
    /\ Returned("detect_language")
    /\ ret["detect_language"].v.kind = "raise"
    /\ calls["generate"] >= 1
    /\ pc = "done"
    /\ EndsWith("complete")

\* The base subtag of a language code: the part before the first "-", case
\* apart.
BaseSubtag(code) == LowerTok(Head(code))

\* The translate code of each target language; an unknown key stands for
\* italian.
TargetBase(lang) ==
    CASE lang = "spanish" -> "es"
      [] lang = "french" -> "fr"
      [] lang = "german" -> "de"
      [] lang = "japanese" -> "ja"
      [] OTHER -> "it"

\* The detection service answered with a code that names a language.
DeterminateDetection ==
    /\ pc = "detected"
    /\ Returned("detect_language")
    /\ ret["detect_language"].v.kind \in {"dict", "list"}
    /\ Lower(ret["detect_language"].v.language) \notin {<<>>, <<"und">>}

\* C13: for every determinate detected code and every target language,
\* detect_language_mismatch reports a mismatch exactly when the base subtag of
\* the detected code differs from the base subtag of the target's code; a
\* regional variant of the target language (es-MX for spanish) is no mismatch.
C13_MismatchIffBaseSubtagsDiffer ==
    DeterminateDetection =>
        LET code == ret["detect_language"].v.language
            r    == ret["detect"].v
        IN  /\ r.is_mismatch <=> (BaseSubtag(code) # TargetBase(language))
            /\ r.is_mismatch <=> (r.message # <<>>)
            /\ r.detected = Lower(code)

C13_Witness ==
    /\ DeterminateDetection
    /\ language = "spanish"
    /\ ret["detect_language"].v.language = <<"es", "MX">>
    /\ ~ret["detect"].v.is_mismatch

\* The latest response is a denial by the rate limiter.
Denied == response.limited /\ ~response.allowed

\* C14: counted from the request that finds the client's list empty, the
\* first 20 rate-limited requests of a client that fall within one window of
\* 60 seconds are all admitted, and the 21st within that window is denied
\* with status 429 and a positive retry_after.
C14_TwentyAdmittedThenDenied ==
    \A c \in Clients :
        LET st == stats[c]
        IN  (st.limited >= 1 /\ st.last - st.first < WindowTicks) =>
                /\ st.limited <= RATE_LIMIT_REQUESTS => st.admitted = st.limited
                /\ st.limited = RATE_LIMIT_REQUESTS + 1 =>
                      /\ st.admitted = RATE_LIMIT_REQUESTS
                      /\ response.client = c =>
                            /\ Denied
                            /\ response.status = 429
                            /\ response.retry_after.v > 0

C14_Witness ==
    /\ stats["10.0.0.1"].limited = RATE_LIMIT_REQUESTS + 1
    /\ stats["10.0.0.1"].first = 0
    /\ stats["10.0.0.1"].last = 1
    /\ Denied

\* At a denial: the ticks until the oldest timestamp left in the client's
\* list is outside the window.
Remaining == WindowTicks - (response.time - Oldest(requests[response.client]))

\* The oldest timestamp is outside the window k whole seconds after the denial.
ExpiredAfter(k) ==
    (response.time + k * TicksPerSecond) - Oldest(requests[response.client]) >= WindowTicks

\* C15 as stated: at a denial retry_after is the time until the oldest
\* timestamp expires rounded up to whole seconds, the smallest whole number
\* of seconds after which that timestamp is outside the window.
C15_RetryAfterIsCeiling ==
    Denied =>
        /\ response.retry_after.v = (Remaining + TicksPerSecond - 1) \div TicksPerSecond
        /\ ExpiredAfter(response.retry_after.v)
        /\ ~ExpiredAfter(response.retry_after.v - 1)

\* C15: at a denial retry_after is the smallest whole number of seconds that
\* is strictly greater than the time until the oldest timestamp expires: the
\* time rounded up when it is no whole number of seconds, and one second more
\* than it when it is; after retry_after seconds the timestamp is outside the
\* window.
C15_RetryAfterIsNextWholeSecond ==
    Denied =>
        LET r == response.retry_after.v
        IN  /\ r * TicksPerSecond > Remaining
            /\ (r - 1) * TicksPerSecond <= Remaining
            /\ ExpiredAfter(r)
            /\ r = IF Remaining % TicksPerSecond = 0
                   THEN (Remaining \div TicksPerSecond) + 1
                   ELSE (Remaining + TicksPerSecond - 1) \div TicksPerSecond

C15_Witness ==
    /\ Denied
    /\ Remaining % TicksPerSecond = 0
    /\ response.retry_after.v = RATE_LIMIT_WINDOW + 1

\* The routes the middleware is said to let through unchecked.
MetadataRoutes ==
    {<<"health">>, <<"languages">>} \cup {DialectsPath(k) : k \in LanguageKeys}

\* C16: a request for /health, /languages or /dialects/{language} is never
\* checked by the rate limiter (it is never answered 429 and leaves no
\* timestamp), and a request for /converse or /greeting always is.
C16_MetadataRoutesBypass ==
    /\ response.path \in MetadataRoutes =>
          (~response.limited /\ response.status # 429)
    /\ response.path \in {ConversePath, <<"greeting">>} => response.limited

\* C17: a /converse request that the rate limiter denies is answered 429 with
\* a positive retry_after and its pipeline never starts: no event is yielded
\* and no external service is called for it.
C17_DeniedConverseNeverStarts ==
    (response.path = ConversePath /\ Denied) =>
        /\ response.status = 429
        /\ response.retry_after.v > 0
        /\ pc = "idle"
        /\ events = <<>>
        /\ NoCalls(Stages)
        /\ \A a \in Adapters : ~Returned(a)

C17_Witness ==
    /\ response.path = ConversePath
    /\ Denied
    /\ response.client = "unknown"
    /\ Len(requests["unknown"]) = RATE_LIMIT_REQUESTS

\* C19: /dialects/{key} answers 200 for exactly the keys that /languages
\* lists, and 404 for every other key.
C19_ListedKeysAnswer200 ==
    \A k \in LanguageKeys :
        response.path = DialectsPath(k) =>
            response.status = IF k \in get_languages.keys THEN 200 ELSE 404

\* The first dialect each language declares.
FirstDeclared(lang) ==
    CASE lang = "italian" -> "tuscan"
      [] lang = "spanish" -> "castilian"
      [] lang = "french" -> "parisian"
      [] lang = "german" -> "hochdeutsch"
      [] lang = "japanese" -> "tokyo"

\* The dialect keys a language declares.
DeclaredDialects(lang) ==
    {SUPPORTED_LANGUAGES[lang].dialects[i].key : i \in DOMAIN SUPPORTED_LANGUAGES[lang].dialects}

\* C18: persona resolution is total.  For every pair of parameters converse
\* resolves a persona of the catalog: the language is the one sent, or
\* italian when the key is unknown; the dialect is the one sent when that
\* language declares it, else the language's first declared dialect; so a
\* valid pair resolves to itself.
C18_PersonaResolutionTotal ==
    pc = "start" =>
        LET lang == IF form.language \in DOMAIN SUPPORTED_LANGUAGES
                    THEN form.language ELSE "italian"
        IN  /\ lang_config = SUPPORTED_LANGUAGES[lang]
            /\ dialect = IF form.dialect \in DeclaredDialects(lang)
                         THEN form.dialect ELSE FirstDeclared(lang)
            /\ \E i \in DOMAIN SUPPORTED_LANGUAGES[lang].dialects :
                  /\ SUPPORTED_LANGUAGES[lang].dialects[i].key = dialect
                  /\ dialect_config = SUPPORTED_LANGUAGES[lang].dialects[i]

C18_Witness ==
    /\ pc = "start"
    /\ form = [language |-> "klingon", dialect |-> "mexican"]
    /\ dialect = "tuscan"
    /\ dialect_config.name # ""

\* C20: an exception that reaches the outermost handler of generate_events,
\* at whatever stage it was raised, is turned into one error event whose
\* message is the fixed generic sentence, whatever the exception says; it is
\* the only error event and the last event of the stream, no complete event
\* is sent, and the generator has ended.
C20_UnexpectedExceptionOneGenericError ==
    Returned("generate_events") =>
        /\ pc = "done"
        /\ Last = [event |-> "error", message |-> <<"Something went wrong. Please try again!">>]
        /\ Cardinality({i \in DOMAIN events : events[i].event = "error"}) = 1
        /\ ~HasEvent("complete")

C20_Witness ==
    /\ Returned("generate_events")
    /\ ret["generate_events"].v = <<"division", "by", "zero">>
    /\ Returned("translate")
    /\ ~Returned("synthesize")
    /\ calls["synthesize"] = 1

\* The pipeline waits for an external service to answer.
InFlight(p) ==
    p \in {"await_transcribe", "await_detect", "await_generate", "await_translate",
           "await_synthesize"}

\* C21: every external-service call is a suspension point: while the followed
\* request waits for a call to return, a second request that has begun and
\* has not ended can take a step.
C21_CallsAreSuspensionPoints ==
    (InFlight(pc) /\ other.pc \notin {"idle", "done"}) => ENABLED OtherStep

\* The models tried so far are the first ones of the list, in its order; the
\* one being tried is the model_idx-th, and all before it have failed.
AttemptsInOrder ==
    /\ IsPrefix(attempted, models_to_try)
    /\ calls["generate"] = Len(attempted)
    /\ failures \subseteq {"quota", "not_found", "other"}
    /\ pc = "await_generate" => Len(attempted) = model_idx
    /\ pc = "model_loop" => Len(attempted) = model_idx - 1
    /\ (Returned("analyze") /\ ret["analyze"].v.path = "exhausted") =>
           attempted = models_to_try

\* A step tries at most one model more, the next of the list, and only from
\* the loop; a failed attempt moves on to the next model; an answer ends the
\* loop, and nothing is tried once analyze_with_gemini has returned.
AttemptStep ==
    /\ attempted' # attempted =>
          /\ pc = "model_loop" /\ pc' = "await_generate"
          /\ ~Returned("analyze")
          /\ Len(attempted) < Len(models_to_try)
          /\ attempted' = Append(attempted, models_to_try[Len(attempted) + 1])
    /\ (pc = "await_generate" /\ pc' # pc) =>
          \/ pc' = "model_loop" /\ model_idx' = model_idx + 1
          \/ pc' = "analyzed" /\ ret'["analyze"].some

\* C22: within one feedback generation the models are tried one at a time in
\* the order of the list: model k only after models 1..k-1 have failed, every
\* failure moving on to the next model, no model twice, none after the first
\* answer, and never more than the 7 of the list.
C22_ModelsTriedInOrder == [](AttemptsInOrder) /\ [][AttemptStep]_vars

C22_Witness ==
    /\ attempted = models_to_try
    /\ Returned("analyze")
    /\ ret["analyze"].v.path = "answered"
    /\ pc = "done"

\* C23: within one request no stage is retried: the transcription, detection,
\* translation and synthesis services are each called at most once, also when
\* the call fails; only the generative service is called more than once, at
\* most once per model of the list.
C23_NoStageRetried ==
    /\ \A st \in {"transcribe", "detect", "translate", "synthesize"} : calls[st] <= 1
    /\ calls["generate"] <= Len(models_to_try)
    /\ TranscriptionFailed => (pc = "done" /\ calls["transcribe"] = 1)
    /\ (TranslationFailed \/ SynthesisFailed) => pc \notin {"translating", "await_translate"}
    /\ (pc = "done" /\ SynthesisFailed) => calls["synthesize"] = 1

C23_Witness ==
    /\ pc = "done"
    /\ TranslationFailed
    /\ SynthesisFailed
    /\ Returned("detect_language")
    /\ ret["detect_language"].v.kind = "raise"
    /\ calls = [transcribe |-> 1, detect |-> 1, generate |-> 3, translate |-> 1,
                synthesize |-> 1]

\* The event with label l was yielded.
Emitted(l) == \E i \in DOMAIN events : Labels[i] = l

\* If b was yielded, a was yielded before it.
Before(a, b) ==
    Emitted(b) =>
        \E i, j \in DOMAIN events : i < j /\ Labels[i] = a /\ Labels[j] = b

\* C24: the call of each of the stages transcribing, analyzing, translating
\* and synthesizing is started only after the stage's progress event was
\* yielded; the result events transcript, analysis and translation are
\* yielded only after the stage's call has returned, and before the progress
\* event of the next stage.
C24_ProgressThenCallThenResult ==
    /\ calls["transcribe"] >= 1 => Emitted(<<"progress", "transcribing">>)
    /\ (calls["detect"] >= 1 \/ calls["generate"] >= 1) =>
          Emitted(<<"progress", "analyzing">>)
    /\ calls["translate"] >= 1 => Emitted(<<"progress", "translating">>)
    /\ calls["synthesize"] >= 1 => Emitted(<<"progress", "synthesizing">>)
    /\ Emitted(<<"transcript">>) => (Returned("transcribe") /\ calls["transcribe"] = 1)
    /\ Emitted(<<"analysis">>) => (Returned("analyze") /\ pc # "analyzed")
    /\ Emitted(<<"translation">>) => (Returned("translate") /\ calls["translate"] = 1)
    /\ Before(<<"progress", "transcribing">>, <<"transcript">>)
    /\ Before(<<"transcript">>, <<"progress", "analyzing">>)
    /\ Before(<<"progress", "analyzing">>, <<"analysis">>)
    /\ Before(<<"analysis">>, <<"progress", "translating">>)
    /\ Before(<<"progress", "translating">>, <<"translation">>)
    /\ Before(<<"translation">>, <<"progress", "synthesizing">>)
    /\ Emitted(<<"progress", "analyzing">>) => calls["translate"] = 0 \/ Emitted(<<"analysis">>)

C24_Witness ==
    /\ pc = "await_synthesize"
    /\ calls["detect"] = 1
    /\ calls["generate"] = 2
    /\ Emitted(<<"translation">>)
    /\ Emitted(<<"progress", "synthesizing">>)

\* C25: the admission checks of concurrent requests of one client take effect
\* one after the other, none inside another: at most one request is inside
\* is_allowed, the list it works on is the stored one, every admitted request
\* has its timestamp in the stored list (none is lost), and at most 20
\* requests are admitted within one window.
C25_ChecksAreAtomic ==
    LET c == "10.0.0.1"
    IN  /\ Cardinality({r \in Slots : checks[r].pc # "idle"}) <= 1
        /\ \A r \in Slots :
              /\ checks[r].pc \in {"stored", "admitting"} => requests[c] = checks[r].kept
              /\ checks[r].pc = "admitting" => Len(requests[c]) < RATE_LIMIT_REQUESTS
        /\ (\A r \in Slots : checks[r].pc \in {"idle", "filtered"}) =>
               Len(requests[c]) = stats[c].admitted
        /\ stats[c].admitted <= RATE_LIMIT_REQUESTS
        /\ Len(requests[c]) <= RATE_LIMIT_REQUESTS

C25_Witness ==
    /\ stats["10.0.0.1"].admitted = RATE_LIMIT_REQUESTS
    /\ stats["10.0.0.1"].limited = RATE_LIMIT_REQUESTS + 1
    /\ Denied
    /\ checks[2].pc = "stored"

\* C26: a check made for one client, admitted or denied, leaves the stored
\* timestamps of every other client as they were, and leaves the outcome of
\* every other client's next check as it was.
C26_ClientsAreIsolated ==
    [][\A b \in Clients :
          b # response'.client =>
             /\ requests'[b] = requests[b]
             /\ MiddlewareResult(b, <<"greeting">>)' = MiddlewareResult(b, <<"greeting">>)]_vars

C26_Witness ==
    /\ Denied
    /\ response.client = "10.0.0.1"
    /\ Len(requests["10.0.0.1"]) = RATE_LIMIT_REQUESTS
    /\ Len(requests["unknown"]) = 1
    /\ MiddlewareResult("unknown", <<"greeting">>).response.allowed

\* The stage a position of the generator belongs to, in the order of the
\* pipeline; the end of the stream comes last.
StageRank(p) ==
    CASE p = "idle" -> 0
      [] p \in {"start", "receiving"} -> 1
      [] p \in {"transcribing", "await_transcribe", "transcript_sent"} -> 2
      [] p \in {"analyzing", "await_detect", "detected", "build_prompt", "model_loop",
                "await_generate", "analyzed", "analysis_sent"} -> 3
      [] p \in {"translating", "await_translate", "translation_sent"} -> 4
      [] p \in {"synthesizing", "await_synthesize", "complete_pending"} -> 5
      [] OTHER -> 6

StepRank(step) ==
    CASE step = "receiving" -> 1
      [] step = "transcribing" -> 2
      [] step = "analyzing" -> 3
      [] step = "translating" -> 4
      [] step = "synthesizing" -> 5
      [] OTHER -> 6

\* The stream has ended on a terminal event, the only one of the stream.
Ended ==
    /\ pc = "done"
    /\ events # <<>>
    /\ \A i \in DOMAIN events : Terminal(events[i]) <=> i = Len(events)

\* C27: when every external call returns and the generator is resumed after
\* each event, a request that has entered the pipeline ends its stream on a
\* terminal event (complete or error); the generator never moves to an
\* earlier stage, and the progress events come in the order Receiving,
\* Transcribing, Analyzing, Translating, Synthesizing, Complete, each stage
\* at most once.
C27_PipelineTerminatesForward ==
    /\ (pc = "start") ~> Ended
    /\ [][StageRank(pc') >= StageRank(pc)]_vars
    /\ [](\A i, j \in DOMAIN events :
            (i < j /\ events[i].event = "progress" /\ events[j].event = "progress")
               => StepRank(events[i].step) < StepRank(events[j].step))

C27_Witness ==
    /\ Ended
    /\ Truthy(error)
    /\ events[Len(events)] = ErrorEvent(error.v)
    /\ ~Truthy(ret["generate_events"])
    /\ calls.generate = Len(models_to_try)
    /\ \E i \in DOMAIN events :
          events[i].event = "progress" /\ events[i].step = "analyzing"

\* The number of the client's requests admitted in the window (t - 60 s, t].
AdmittedWithin(c, t) ==
    Cardinality({i \in DOMAIN stats[c].log :
                    t - WindowTicks < stats[c].log[i] /\ stats[c].log[i] <= t})

\* C28: with a clock that never goes back, after any sequence of checks the
\* stored list of every client holds at most 20 timestamps, and for every
\* instant t at most 20 requests of one client were admitted in the window
\* (t - 60 s, t].
C28_WindowNeverExceedsLimit ==
    \A c \in Clients :
        /\ Len(requests[c]) <= RATE_LIMIT_REQUESTS
        /\ \A t \in 0 .. (WindowTicks + WindowTicks) : AdmittedWithin(c, t) <= RATE_LIMIT_REQUESTS

C28_Witness ==
    /\ now = WindowTicks
    /\ Denied
    /\ Len(requests["10.0.0.1"]) = RATE_LIMIT_REQUESTS
    /\ Len(stats["10.0.0.1"].log) > RATE_LIMIT_REQUESTS
    /\ AdmittedWithin("10.0.0.1", WindowTicks) = RATE_LIMIT_REQUESTS

\* The step is a check of client c that was answered with a denial.
DeniedStep(c) ==
    /\ stats'[c].limited = stats[c].limited + 1
    /\ response'.client = c
    /\ ~response'.allowed

\* C29: a denied check records nothing: it leaves in the client's list
\* exactly the timestamps that were not stale before it, the log of admitted
\* requests is as it was, and the answer of the client's next check at any
\* later time is the one it would have been without the denied request.
C29_DenialRecordsNothing ==
    [][\A c \in Clients :
          DeniedStep(c) =>
             /\ requests'[c] = Prune(requests[c], now)
             /\ stats'[c].log = stats[c].log
             /\ \A t \in Instants :
                   t >= now =>
                      /\ is_allowed(requests'[c], t).allowed = is_allowed(requests[c], t).allowed
                      /\ is_allowed(requests'[c], t).retry_after
                            = is_allowed(requests[c], t).retry_after]_vars

C29_Witness ==
    /\ Denied
    /\ response.client = "10.0.0.1"
    /\ response.time = WindowTicks
    /\ stats["10.0.0.1"].limited = RATE_LIMIT_REQUESTS + 2
    /\ Len(requests["10.0.0.1"]) = RATE_LIMIT_REQUESTS
    /\ Len(stats["10.0.0.1"].log) > RATE_LIMIT_REQUESTS

\* The step is a check of client c by the rate limiter.
CheckStep(c) ==
    \/ stats'[c].limited # stats[c].limited
    \/ stats'[c].log # stats[c].log

\* The latest answer is a denial of client c whose advertised wait is over.
WaitIsOver(c) ==
    /\ Denied
    /\ response.client = c
    /\ now >= response.time + response.retry_after.v * TicksPerSecond

\* C30: when a client was denied at time t with retry_after = r and sends
\* nothing in between, its next request, at any time from t + r seconds on,
\* is admitted.
C30_AdvertisedWaitIsSufficient ==
    [][\A c \in Clients :
          (WaitIsOver(c) /\ CheckStep(c)) =>
             /\ response'.allowed
             /\ response'.status # 429
             /\ response'.time = now]_vars

C30_Witness ==
    /\ WaitIsOver("10.0.0.1")
    /\ response.time = 1
    /\ response.retry_after = Some(RATE_LIMIT_WINDOW)
    /\ now = WindowTicks + 1
    /\ ENABLED Request("10.0.0.1", <<"greeting">>)

\* The language the request's persona belongs to: the one asked for, or
\* italian when the key is not in the catalog.
PersonaLanguage ==
    IF language \in DOMAIN SUPPORTED_LANGUAGES THEN language ELSE "italian"

\* The catalog's entries of that language with the request's dialect key.
Personas ==
    {SUPPORTED_LANGUAGES[PersonaLanguage].dialects[i] :
        i \in {j \in DOMAIN SUPPORTED_LANGUAGES[PersonaLanguage].dialects :
                  SUPPORTED_LANGUAGES[PersonaLanguage].dialects[j].key = dialect}}

\* The returns of analyze_with_gemini that carry a canned reply.
CannedPaths == {"mismatch", "exhausted", "prompt_error", "text_error"}

\* C31: one persona serves the whole request, whatever language and dialect
\* keys were sent: the request's dialect is a dialect of the resolved
\* language, and that one catalog entry gives the names of the progress
\* messages, the greeting of every canned reply of the analysis, the voice
\* the synthesis is addressed to, and the tutor_name, tutor_region and
\* dialect of the complete event.
C31_OnePersonaThroughout ==
    pc # "idle" =>
        /\ dialect \in DeclaredDialects(PersonaLanguage)
        /\ \E persona \in Personas :
              /\ Personas = {persona}
              /\ \A i \in DOMAIN events :
                    /\ (events[i].event = "progress"
                        /\ events[i].step \in {"receiving", "analyzing", "synthesizing"})
                          => events[i].message[1] = persona.name
                    /\ events[i].event = "complete" =>
                          /\ events[i].dialect = persona.key
                          /\ events[i].tutor_name = persona.name
                          /\ events[i].tutor_region = persona.region
              /\ (Returned("analyze") /\ ~Truthy(ret["analyze"].v.error)
                    /\ (\/ ret["analyze"].v.path \in CannedPaths
                        \/ ret["analyze"].v.result = ParseFallbackResult(language, dialect)))
                    => ret["analyze"].v.result.response = persona.greeting
              /\ Returned("synthesize_voice") => ret["synthesize_voice"].v = persona.voice_id

C31_Witness ==
    /\ language = "klingon"
    /\ dialect = "roman"
    /\ HasEvent("complete")
    /\ Last.tutor_name = "Marco"
    /\ ret["analyze"].v.path = "exhausted"
    /\ ret["synthesize_voice"] = Some("ErXwobaYiN019PkySvjV")

====
